---- MODULE Spec2Model ----
(***************************************************************************)
(* VATFix Plus: the validation fallback engine (checkVAT, src/validate.js) *)
(* and the windowed usage meter (meterAndCheck, src/meter.js), both over   *)
(* an S3 bucket that offers get and put and nothing else.                  *)
(*                                                                         *)
(* Every await of the source is a suspension point: a call is modelled as  *)
(* one step per await, the step being the completion of the awaited I/O    *)
(* together with the synchronous code that runs up to the next await.      *)
(* Strings the code transforms (country code, VAT number) are sequences of *)
(* one-character strings; strings it only copies are opaque TLA+ strings.  *)
(***************************************************************************)
EXTENDS Integers, Naturals, Sequences, FiniteSets, TLC

VARIABLES
    now,        \* the wall clock, Date.now(), in model milliseconds
    S3_BUCKET,  \* TRUE iff process.env.S3_BUCKET is set (fixed at start-up)
    cache,      \* objects under cache/: key -> {cachedAt, payload}
    vlogs,      \* objects under logs/ written by checkVAT: key -> record
    vcall,      \* checkVAT invocations: position and locals of each
    meter,      \* objects under meter/: key -> {count, window, apiKey, limit}
    mlogs,      \* objects under logs/<day>/ written by meterAndCheck
    mcall,      \* meterAndCheck invocations: position and locals of each
    mcalls,     \* per bucket key: how many invocations computed that key
    server,     \* which lookup handler is deployed (fixed at start-up)
    hreq,       \* lookup requests: position, inputs and response of each
    ENFORCE_STRIPE, \* TRUE iff process.env.ENFORCE_STRIPE is '1' (fixed at start-up)
    keys,       \* objects keys/<customer>.json: customer -> entitlement record
    bykey,      \* objects keys/by-key/<key>.json: key -> entitlement record
    issued,     \* how many API keys crypto.randomBytes has produced
    whook,      \* webhook deliveries (src/server.mjs): position and locals of each
    handled,    \* per customer: the operation of the last delivery answered 200
    marks,      \* objects webhook/<event id>.json written by src/webhook.js
    lhook,      \* deliveries to the listener of src/webhook.js
    mails,      \* per event id: how many download emails were sent
    delivered   \* how many deliveries the listener of src/webhook.js took

vars == <<now, S3_BUCKET, cache, vlogs, vcall, meter, mlogs, mcall, mcalls, server, hreq,
          ENFORCE_STRIPE, keys, bykey, issued, whook, handled,
          marks, lhook, mails, delivered>>
hvars == <<server, hreq>>
kvars == <<ENFORCE_STRIPE, keys, bykey, issued, whook, handled>>
lvars == <<marks, lhook, mails, delivered>>
vvars == <<cache, vlogs, vcall>>
mvars == <<meter, mlogs, mcall, mcalls>>

---------------------------------------------------------------------------
(* Bounds of the model *)

MaxClock == 3
MaxMeterClock == 2
NumV == 2
NumM == 2
MaxCalls == 5
MaxHandlerCalls == 3
NumW == 2
MaxKeys == 2
NumD == 2
MaxDeliveries == 3

(* Configuration, read once from the environment; scaled to the clock *)

CACHE_TTL_MS == 2
WINDOW_MS == 2
LIMIT == 2

VReq == 1..NumV
MReq == 1..NumM

---------------------------------------------------------------------------
(* JavaScript values *)

Undef == "undefined"
Null == "null"

\* x is falsy: undefined, null, the empty string, false
Falsy(x) == x \in {Undef, Null, "", "false"}

\* x || d on opaque values
OrElse(x, d) == IF Falsy(x) THEN d ELSE x

\* x || d on character sequences (undefined and '' are both the empty sequence)
OrSeq(s, d) == IF s = <<>> THEN d ELSE s

IsSpace(c) == c \in {" ", "\t"}

UpperChar(c) ==
    IF c = "d" THEN "D" ELSE IF c = "e" THEN "E" ELSE IF c = "i" THEN "I"
    ELSE IF c = "t" THEN "T" ELSE c

\* String.prototype.toUpperCase
toUpperCase(s) == [i \in 1..Len(s) |-> UpperChar(s[i])]

RECURSIVE TrimLeft(_)
TrimLeft(s) == IF s # <<>> /\ IsSpace(Head(s)) THEN TrimLeft(Tail(s)) ELSE s

RECURSIVE TrimRight(_)
TrimRight(s) ==
    IF s # <<>> /\ IsSpace(s[Len(s)]) THEN TrimRight(SubSeq(s, 1, Len(s) - 1)) ELSE s

\* a trim that leaves the string as it is
trim_Identity(s) == s

\* String.prototype.trim
trim(s) == TrimRight(TrimLeft(s))

\* s.replace(/\s+/g, '')
StripSpace(s) == SelectSeq(s, LAMBDA c : ~IsSpace(c))

\* new Date(ms).toISOString(): millisecond precision, so parsing it back is exact
toISOString(ms) == [iso |-> ms]

\* new Date(x).getTime(): the instant of an ISO string, NaN for anything else
IsDateString(x) == DOMAIN x = {"iso"}
getTime(x) == x.iso

\* { ...base, ...over }
Spread(base, over) ==
    [k \in DOMAIN base \cup DOMAIN over |-> IF k \in DOMAIN over THEN over[k] ELSE base[k]]

---------------------------------------------------------------------------
(* The S3 helpers of src/validate.js *)

\* How one S3 request can end. Without a bucket the helpers return at once.
StoreOutcomes == IF S3_BUCKET THEN {"ok", "error"} ELSE {"unconfigured"}

NullRec == [null |-> TRUE]
IsNull(x) == DOMAIN x = {"null"}

\* a rejected promise: the awaiting caller rethrows unless it awaits inside a try
Thrown == [thrown |-> TRUE]
IsThrown(x) == DOMAIN x = {"thrown"}

\* getJSON without its try/catch: a failed request rejects
getJSON_Unguarded(store, Key, outcome) ==
    IF outcome = "error" THEN Thrown
    ELSE IF outcome = "ok" /\ Key \in DOMAIN store THEN store[Key] ELSE NullRec

\* getJSON: the parsed object, or null when there is no bucket, the key is
\* absent, the request fails or the body does not parse
getJSON(store, Key, outcome) ==
    IF outcome = "ok" /\ Key \in DOMAIN store THEN store[Key] ELSE NullRec

\* a put that does not replace an object that is there
putJSON_IfAbsent(store, Key, data, outcome) ==
    IF outcome = "ok" /\ Key \notin DOMAIN store THEN (Key :> data) @@ store ELSE store

\* putJSON: the store after the put; a failed put is swallowed
putJSON(store, Key, data, outcome) ==
    IF outcome = "ok" THEN (Key :> data) @@ store ELSE store

cacheKey(countryCode, vatNumber) ==
    <<"cache/">> \o toUpperCase(countryCode) \o <<"_">> \o StripSpace(vatNumber) \o <<".json">>

\* the freshness test with <= in place of <
Fresh_Inclusive(rec, t) ==
    /\ "cachedAt" \in DOMAIN rec
    /\ IsDateString(rec.cachedAt)
    /\ t - getTime(rec.cachedAt) <= CACHE_TTL_MS

\* Date.now() - new Date(rec.cachedAt).getTime() < CACHE_TTL_MS  (false on NaN)
Fresh(rec, t) ==
    /\ "cachedAt" \in DOMAIN rec
    /\ IsDateString(rec.cachedAt)
    /\ t - getTime(rec.cachedAt) < CACHE_TTL_MS

\* getCached, after getJSON returned rec: the payload if fresh, else null
getCached(rec, t) ==
    IF IsNull(rec) \/ IsThrown(rec) THEN NullRec
    ELSE IF Fresh(rec, t) /\ "payload" \in DOMAIN rec THEN rec.payload ELSE NullRec

\* setCached: the record it puts
CacheRecord(payload, t) == [cachedAt |-> toISOString(t), payload |-> payload]

---------------------------------------------------------------------------
(* The upstream (VIES) *)

\* Values a caller can pass for countryCode and vatNumber
CountryInputs == { <<"d", "e">>, <<"D", "E">>, <<" ", "d", "e", " ">>, <<"i", "t">> }
VatInputs == { <<"1", "2">>, <<"1", " ", "2">>, <<" ", "1", "2">> }
Emails == { "a@example.com" }

\* a normalisation that hands an unparseable timestamp on as it came
normalizeRequestDate_PassThrough(rd, t) ==
    IF rd.kind \in {"date", "string"}
    THEN (IF rd.valid THEN toISOString(rd.ms) ELSE rd)
    ELSE toISOString(t)

\* normalizeRequestDate. rd is requestDate as VIES sends it: a Date
\* (kind "date"), a string (kind "string") or anything else; valid tells whether
\* the Date is a valid one, or whether the string parses once its offset is
\* fixed; ms is the instant then.
normalizeRequestDate(rd, t) ==
    IF rd.kind = "date" THEN (IF rd.valid THEN toISOString(rd.ms) ELSE toISOString(t))
    ELSE IF rd.kind = "string" THEN (IF rd.valid THEN toISOString(rd.ms) ELSE toISOString(t))
    ELSE toISOString(t)

\* The objects client.checkVatAsync can resolve with for (cc, vn)
UpstreamObjects(cc, vn) ==
    { [countryCode |-> cc, vatNumber |-> vn, valid |-> "true", name |-> "ACME GMBH",
       address |-> "ROAD 1", requestDate |-> [kind |-> "string", valid |-> TRUE, ms |-> 0]],
      [countryCode |-> cc, vatNumber |-> vn, valid |-> "false", name |-> Undef,
       address |-> Undef, requestDate |-> [kind |-> "date", valid |-> FALSE, ms |-> 0]],
      \* a payload without any of the fields, e.g. {}
      [countryCode |-> <<>>, vatNumber |-> <<>>, valid |-> Undef, name |-> Undef,
       address |-> Undef, requestDate |-> [kind |-> "other", valid |-> FALSE, ms |-> 0]] }

NoRaw ==
    [countryCode |-> <<>>, vatNumber |-> <<>>, valid |-> Undef, name |-> Undef,
     address |-> Undef, requestDate |-> [kind |-> "other", valid |-> FALSE, ms |-> 0]]

\* What viesCall can do: resolve with an object, resolve with null, or throw
\* (connection error, timeout of the 2.5 s agent, SOAP fault, error without message)
UpstreamOutcomes(cc, vn) ==
    { [kind |-> "object", raw |-> o, message |-> ""] : o \in UpstreamObjects(cc, vn) }
    \cup { [kind |-> "null", raw |-> NoRaw, message |-> ""] }
    \cup { [kind |-> "throw", raw |-> NoRaw, message |-> m] : m \in {"ETIMEDOUT", ""} }

AllUpstreamOutcomes ==
    UNION { UpstreamOutcomes(trim(toUpperCase(cc)), StripSpace(vn)) :
                <<cc, vn>> \in CountryInputs \X VatInputs }

\* res.valid is a boolean
HasBooleanValid(raw) == raw.valid \in {"true", "false"}

\* The message of the TypeError that reading res.countryCode of null raises
NullDerefMessage == "Cannot read properties of null (reading 'countryCode')"

---------------------------------------------------------------------------
(* checkVAT (src/validate.js) *)

NoResult == [source |-> "none"]

IdleV ==
    [pc |-> "idle", cc |-> <<>>, vn |-> <<>>, email |-> "", lookupId |-> NullRec,
     t |-> 0, err |-> "", failAt |-> 0, put |-> NullRec, putOutcome |-> "",
     rec |-> NullRec, readOutcome |-> "", readAt |-> 0, clientCalls |-> 0,
     upstreamCalls |-> 0,
     up |-> "", res |-> NoRaw, malformed |-> FALSE, prior |-> {}, result |-> NoResult]

\* `${cc}-${vn}-${Date.now().toString(36)}`: the pair and the call's instant
LookupId(cc, vn, t) == [cc |-> cc, vn |-> vn, t36 |-> t]

\* `logs/${t}_${vn || 'unknown'}.json`
AuditKey(t, vn) == <<"logs/", t, "_">> \o OrSeq(vn, <<"unknown">>) \o <<".json">>

\* a payload that carries the cached flag of a cache-served result
VatPayload_Flagged(res, cc, vn, lookupId, t) ==
    [countryCode |-> OrSeq(res.countryCode, cc),
     vatNumber   |-> OrSeq(res.vatNumber, vn),
     valid       |-> ~Falsy(res.valid),
     name        |-> OrElse(res.name, Null),
     address     |-> OrElse(res.address, Null),
     requestDate |-> normalizeRequestDate(res.requestDate, t),
     lookupId    |-> lookupId,
     source      |-> "vies",
     cacheTtlMs  |-> CACHE_TTL_MS,
     cached      |-> FALSE]

\* the payload built from a resolved upstream object
VatPayload(res, cc, vn, lookupId, t) ==
    [countryCode |-> OrSeq(res.countryCode, cc),
     vatNumber   |-> OrSeq(res.vatNumber, vn),
     valid       |-> ~Falsy(res.valid),
     name        |-> OrElse(res.name, Null),
     address     |-> OrElse(res.address, Null),
     requestDate |-> normalizeRequestDate(res.requestDate, t),
     lookupId    |-> lookupId,
     source      |-> "vies",
     cacheTtlMs  |-> CACHE_TTL_MS]

\* the cache result with the spread last, so that the stored fields win
CacheResult_SpreadLast(cached, lookupId, t) ==
    Spread([requestDate |-> toISOString(t), lookupId |-> lookupId, source |-> "cache",
            cacheTtlMs |-> CACHE_TTL_MS, cached |-> TRUE],
           cached)

\* the result served from a cached payload
CacheResult(cached, lookupId, t) ==
    Spread(cached,
           [requestDate |-> toISOString(t), lookupId |-> lookupId, source |-> "cache",
            cacheTtlMs |-> CACHE_TTL_MS, cached |-> TRUE])

\* the error tag without prefix and default: err?.message alone
FallbackError_Bare(message) == <<message>>

\* `fallback:${err?.message || 'unavailable'}`
FallbackError(message) == <<"fallback:", OrElse(message, "unavailable")>>

\* the soft-failure result
SoftError(cc, vn, lookupId, t, message) ==
    [countryCode |-> cc, vatNumber |-> vn, valid |-> FALSE, name |-> Null,
     address |-> Null, requestDate |-> toISOString(t), lookupId |-> lookupId,
     source |-> "error", cacheTtlMs |-> CACHE_TTL_MS, error |-> FallbackError(message)]

\* Is the value viesCall resolved with usable by the try block? Reading a
\* property of null raises; any object, even {}, is taken as an answer.
UpstreamSucceeded(up) == up.kind = "object"

\* the message of the error the catch block receives
CaughtMessage(up) == IF up.kind = "null" THEN NullDerefMessage ELSE up.message

\* How soap.createClientAsync can end: a client, or an error (WSDL not
\* reachable, or the download cut off by the timeout of wsdl_options)
ClientOutcomes == {"ok", "timeout"}
WsdlTimeoutMessage == "ESOCKETTIMEDOUT"

\* a catch block that calls viesCall again
OnUpstreamFailure_Retry == "client"

\* lines 137-139: where a failure of viesCall leads: the cache read, once
OnUpstreamFailure == "getCached"

\* lines 108-116: normalise, stamp the lookup id, send the audit put
VCall(r, countryCode, vatNumber, email) ==
    /\ vcall[r].pc = "idle"
    /\ LET cc == trim(toUpperCase(countryCode))
           vn == StripSpace(vatNumber)
       IN  vcall' = [vcall EXCEPT ![r] =
                [@ EXCEPT !.pc = "audit", !.cc = cc, !.vn = vn, !.email = email,
                          !.lookupId = LookupId(cc, vn, now), !.t = now,
                          \* history: the invocations that had returned by now
                          !.prior = {q \in VReq : vcall[q].pc = "done"}]]
    /\ UNCHANGED <<now, S3_BUCKET, kvars, lvars, hvars, cache, vlogs, mvars>>

\* lines 116-123 and 79: the audit put ends (either way); viesCall starts to
\* build the SOAP client, which downloads the WSDL
VAuditDone(r, outcome) ==
    /\ vcall[r].pc = "audit"
    /\ outcome \in StoreOutcomes
    /\ LET c == vcall[r]
       IN  vlogs' = putJSON(vlogs, AuditKey(c.t, c.vn),
                            [t |-> c.t, countryCode |-> c.cc, vatNumber |-> c.vn,
                             email |-> c.email], outcome)
    /\ vcall' = [vcall EXCEPT ![r] =
            [@ EXCEPT !.pc = "client", !.clientCalls = @ + 1]]
    /\ UNCHANGED <<now, S3_BUCKET, kvars, lvars, hvars, cache, mvars>>

\* lines 79-84 and 137-139: createClientAsync ends. Its WSDL download runs
\* under wsdl_options (agent and timeout of 2.5 s), so it ends: with a client,
\* and checkVatAsync is sent, or with an error, which the catch block of
\* checkVAT receives.
VClientDone(r, outcome) ==
    /\ vcall[r].pc = "client"
    /\ outcome \in ClientOutcomes
    /\ LET c == vcall[r]
       IN  vcall' = [vcall EXCEPT ![r] =
                IF outcome = "ok"
                THEN [c EXCEPT !.pc = "vies", !.upstreamCalls = @ + 1]
                ELSE [c EXCEPT !.pc = OnUpstreamFailure, !.up = "wsdl",
                               !.err = WsdlTimeoutMessage, !.failAt = now]]
    /\ UNCHANGED <<now, S3_BUCKET, kvars, lvars, hvars, cache, vlogs, mvars>>

\* lines 84-86, 123-135 and 137-139: checkVatAsync ends. It is sent without
\* request options, so nothing but the upstream ends it. An answer is turned into
\* the payload and the cache put is sent; a failure sends the cache read.
VViesDone(r, up) ==
    /\ vcall[r].pc = "vies"
    /\ up \in UpstreamOutcomes(vcall[r].cc, vcall[r].vn)
    /\ LET c == vcall[r]
       IN  vcall' = [vcall EXCEPT ![r] =
                IF UpstreamSucceeded(up)
                THEN [c EXCEPT !.pc = "setCached", !.up = up.kind, !.res = up.raw,
                               !.malformed = ~HasBooleanValid(up.raw),
                               !.put = CacheRecord(
                                   VatPayload(up.raw, c.cc, c.vn, c.lookupId, now), now)]
                ELSE [c EXCEPT !.pc = OnUpstreamFailure, !.up = up.kind,
                               !.err = CaughtMessage(up), !.failAt = now]]
    /\ UNCHANGED <<now, S3_BUCKET, kvars, lvars, hvars, cache, vlogs, mvars>>

\* a return that hands out the payload only when it was stored
AfterSetCached_OnlyIfStored(payload, outcome) ==
    IF outcome = "ok" THEN payload ELSE [payload EXCEPT !.source = "error"]

\* lines 135-136: `try { await setCached(...) } catch {}  return payload`:
\* what is returned once the put has ended with the given outcome
AfterSetCached(payload, outcome) == payload

\* lines 135-136: the cache put ends (either way); the payload is returned
VSetCachedDone(r, outcome) ==
    /\ vcall[r].pc = "setCached"
    /\ outcome \in StoreOutcomes
    /\ LET c == vcall[r]
       IN  /\ cache' = putJSON(cache, cacheKey(c.cc, c.vn), c.put, outcome)
           /\ vcall' = [vcall EXCEPT ![r] =
                [c EXCEPT !.pc = "done", !.putOutcome = outcome,
                          !.result = AfterSetCached(c.put.payload, outcome)]]
    /\ UNCHANGED <<now, S3_BUCKET, kvars, lvars, hvars, vlogs, mvars>>

\* lines 139-163 with getCached (63-68): the cache read ends; a fresh entry is
\* served, anything else is the soft failure
VGetCachedDone(r, outcome) ==
    /\ vcall[r].pc = "getCached"
    /\ outcome \in StoreOutcomes
    /\ LET c == vcall[r]
           rec == getJSON(cache, cacheKey(c.cc, c.vn), outcome)
           cached == getCached(rec, now)
       IN  vcall' = [vcall EXCEPT ![r] =
                IF IsThrown(rec)
                THEN \* nothing catches inside the catch block: checkVAT rejects
                     [c EXCEPT !.pc = "threw", !.readOutcome = outcome, !.readAt = now]
                ELSE [c EXCEPT !.pc = "done", !.rec = rec, !.readOutcome = outcome,
                          !.readAt = now,
                          !.result = IF ~IsNull(cached)
                                     THEN CacheResult(cached, c.lookupId, now)
                                     ELSE SoftError(c.cc, c.vn, c.lookupId, now, c.err)]]
    /\ UNCHANGED <<now, S3_BUCKET, kvars, lvars, hvars, cache, vlogs, mvars>>

---------------------------------------------------------------------------
(* validateVAT of src/lib/validate.js, which writes the same cache/ prefix *)

LegacyCountries == { <<"D", "E">> }
LegacyVats == { <<"1", "2">> }

LegacyUpstreamOutcomes ==
    UNION { UpstreamOutcomes(cc, vn) : <<cc, vn>> \in LegacyCountries \X LegacyVats }

\* lines 13-15: the key is built from the arguments as they come
LegacyCacheKey(countryCode, vatNumber) ==
    <<"cache/">> \o countryCode \o <<"_">> \o vatNumber \o <<".json">>

\* JSON.parse(JSON.stringify(raw)) of an upstream object: fields whose value
\* is undefined are left out
StoredJSON(raw) ==
    LET present == {k \in {"countryCode", "vatNumber"} : raw[k] # <<>>}
                   \cup {k \in {"valid", "name", "address"} : raw[k] # Undef}
                   \cup {k \in {"requestDate"} : raw[k].kind # "other"}
    IN  [k \in present |->
            IF k = "valid" THEN raw[k] = "true"
            ELSE IF k = "requestDate" THEN toISOString(raw[k].ms)
            ELSE raw[k]]

\* lines 60-102 with VATFIX_PLUS=1: the request log is put; an upstream
\* answer with a boolean valid is stored, as it came, under the cache key;
\* every other outcome leaves the bucket as it is. The invocation returns to
\* its own caller; what it returns is not modelled.
LegacyValidateVAT(countryCode, vatNumber, email, up, logOutcome, outcome) ==
    /\ up \in UpstreamOutcomes(countryCode, vatNumber)
    /\ logOutcome \in StoreOutcomes
    /\ outcome \in StoreOutcomes
    /\ vlogs' = putJSON(vlogs, <<"logs/", now, "_">> \o vatNumber \o <<".json">>,
                        [timestamp |-> now, countryCode |-> countryCode,
                         vatNumber |-> vatNumber, email |-> email], logOutcome)
    /\ cache' = IF up.kind = "object" /\ HasBooleanValid(up.raw)
                THEN putJSON(cache, LegacyCacheKey(countryCode, vatNumber),
                             [cachedAt |-> toISOString(now), payload |-> StoredJSON(up.raw)],
                             outcome)
                ELSE cache
    /\ UNCHANGED <<now, S3_BUCKET, kvars, lvars, hvars, vcall, mvars>>

---------------------------------------------------------------------------
(* meterAndCheck (src/meter.js) *)

\* Values a caller can pass for apiKey ("" stands for a missing or empty header)
ApiKeys == { "key-A", "" }
MeterCountries == { <<"D", "E">> }
MeterVats == { <<"1", "2">> }

\* Math.floor(now / WINDOW_MS) * WINDOW_MS
WindowOf(t) == (t \div WINDOW_MS) * WINDOW_MS

\* new Date(window).toISOString().slice(0, 10): the UTC day the window starts in
DayOf(window) == window \div (2 * WINDOW_MS)

\* a key that leaves the window out
MeterKey_NoWindow(apiKey, window) == <<"meter/", DayOf(window), apiKey, 0>>

\* a key that leaves the API key out
MeterKey_Shared(apiKey, window) == <<"meter/", DayOf(window), "", window>>

\* `meter/${day}/${apiKey}/${window}.json`
MeterKey(apiKey, window) == <<"meter/", DayOf(window), apiKey, window>>

\* `logs/${day}/${t}_${vatNumber || 'unknown'}.json`
MeterAuditKey(day, t, vatNumber) ==
    <<"logs/", day, t, "_">> \o OrSeq(vatNumber, <<"unknown">>) \o <<".json">>

\* getJSON of src/meter.js: the parsed object, or null on any failure
meterGetJSON(store, Key, outcome) ==
    IF outcome = "ok" /\ Key \in DOMAIN store THEN store[Key] ELSE NullRec

\* a put that increments the stored count instead of overwriting the record
meterPutJSON_Atomic(store, Key, data, outcome) ==
    IF outcome = "ok"
    THEN (Key :> (IF Key \in DOMAIN store /\ "count" \in DOMAIN store[Key]
                  THEN [data EXCEPT !.count = store[Key].count + 1]
                  ELSE data)) @@ store
    ELSE store

\* putJSON of src/meter.js: the store after the put; a failed put is swallowed
meterPutJSON(store, Key, data, outcome) ==
    IF outcome = "ok" THEN (Key :> data) @@ store ELSE store

\* a default record that fails closed: a missing record counts as a full window
DocOrDefault_Full(rec, window, apiKey) ==
    IF IsNull(rec) \/ IsThrown(rec)
    THEN [count |-> LIMIT, window |-> window, apiKey |-> apiKey, limit |-> LIMIT]
    ELSE rec

\* (await getJSON(meterKey)) || { count: 0, window, apiKey, limit: LIMIT }
DocOrDefault(rec, window, apiKey) ==
    IF IsNull(rec) \/ IsThrown(rec) THEN [count |-> 0, window |-> window, apiKey |-> apiKey, limit |-> LIMIT]
    ELSE rec

\* an increment that stops counting once the limit is passed
Increment_Capped(doc) == [doc EXCEPT !.count = IF @ > LIMIT THEN @ ELSE @ + 1]

\* doc.count = (Number(doc.count) || 0) + 1, on the counts this code stores
Increment(doc) == [doc EXCEPT !.count = @ + 1]

\* the guard without the apiKey test
FailsOpen_BucketOnly(apiKey) == ~S3_BUCKET

\* line 64: nothing to meter without a bucket or without a key
FailsOpen(apiKey) == ~S3_BUCKET \/ apiKey = ""

\* a comparison that lets one request more through
OverLimit_Lenient(count) == count > LIMIT + 1

\* the comparison with >= in place of >
OverLimit_Inclusive(count) == count >= LIMIT

\* doc.count > LIMIT
OverLimit(count) == count > LIMIT

Max(a, b) == IF a > b THEN a ELSE b

\* lines 78-87: the decision, from the locally incremented count. A result
\* without a remaining field stands for remaining: undefined.
Decision(count) ==
    IF OverLimit(count)
    THEN [allowed |-> FALSE, reason |-> "rate_limit_exceeded", remaining |-> 0]
    ELSE [allowed |-> TRUE, remaining |-> Max(0, LIMIT - count)]

OpenDecision == [allowed |-> TRUE]

\* a decision taken from a second read of the record after the put
DecisionCount_Reread(doc, store, Key) ==
    IF Key \in DOMAIN store THEN store[Key].count ELSE 0

\* line 78: the count the decision looks at is doc.count, the local copy
\* incremented at line 73; the store after the put is not read again
DecisionCount(doc, store, Key) == doc.count

IdleM ==
    [pc |-> "idle", apiKey |-> "", email |-> "", countryCode |-> <<>>,
     vatNumber |-> <<>>, window |-> 0, key |-> <<>>,
     bucket |-> <<>>, n |-> 0, read |-> 0, readOutcome |-> "", doc |-> NullRec,
     putOutcome |-> "", ops |-> 0, result |-> OpenDecision]

\* History, per API key and window of the clock: how many invocations took
\* their clock there and how many of them were admitted. The n of an
\* invocation is its rank among the former.
Bucket(apiKey, t) == <<apiKey, t \div WINDOW_MS>>
CallsOf(b) == IF b \in DOMAIN mcalls THEN mcalls[b] ELSE [made |-> 0, admitted |-> 0]

RECURSIVE SumMade(_)
SumMade(bs) ==
    IF bs = {} THEN 0
    ELSE LET k == CHOOSE x \in bs : TRUE IN mcalls[k].made + SumMade(bs \ {k})

TotalCalls == SumMade(DOMAIN mcalls)

\* lines 63-72: fail open, or fix the window and send the counter read
MCall(r, apiKey, email, countryCode, vatNumber) ==
    /\ mcall[r].pc \in {"idle", "done"}
    /\ IF FailsOpen(apiKey)
       THEN /\ mcall' = [mcall EXCEPT ![r] =
                    [IdleM EXCEPT !.pc = "done", !.apiKey = apiKey, !.email = email,
                                  !.countryCode = countryCode, !.vatNumber = vatNumber,
                                  !.result = OpenDecision]]
            /\ UNCHANGED mcalls
       ELSE LET window == WindowOf(now)
                key == MeterKey(apiKey, window)
                b == Bucket(apiKey, now)
                c == CallsOf(b)
            IN  /\ TotalCalls < MaxCalls
                /\ mcall' = [mcall EXCEPT ![r] =
                        [IdleM EXCEPT !.pc = "get", !.apiKey = apiKey, !.email = email,
                                      !.countryCode = countryCode,
                                      !.vatNumber = vatNumber, !.bucket = b,
                                      !.window = window, !.key = key,
                                      !.n = c.made + 1, !.ops = 1]]
                /\ mcalls' = (b :> [c EXCEPT !.made = @ + 1]) @@ mcalls
    /\ UNCHANGED <<now, S3_BUCKET, kvars, lvars, hvars, vvars, meter, mlogs>>

\* lines 72-76: the counter read ends; increment locally and send the put
MGetDone(r, outcome) ==
    /\ mcall[r].pc = "get"
    /\ outcome \in {"ok", "error"}
    /\ LET c == mcall[r]
           rec == meterGetJSON(meter, c.key, outcome)
           doc == DocOrDefault(rec, c.window, c.apiKey)
       IN  mcall' = [mcall EXCEPT ![r] =
                IF IsThrown(rec)
                THEN \* lines 88-91: the outer catch fails open
                     [c EXCEPT !.pc = "done", !.readOutcome = outcome,
                               !.result = OpenDecision]
                ELSE [c EXCEPT !.pc = "put", !.read = doc.count, !.readOutcome = outcome,
                               !.doc = Increment(doc), !.ops = @ + 1]]
    /\ UNCHANGED <<now, S3_BUCKET, kvars, lvars, hvars, vvars, meter, mlogs, mcalls>>

\* an audit write on every call, denied ones included
Audited_Always(d) == TRUE

\* lines 78-85: the return at line 79 leaves before the audit put of line 85,
\* so only an admitted call sends it
Audited(d) == d.allowed

\* lines 76-87: the counter put ends (either way); decide; an admitted call
\* sends the audit put and returns without awaiting it. No code reads logs/,
\* so the end of that put (either way) is folded into this step.
MPutDone(r, outcome, auditOutcome) ==
    /\ mcall[r].pc = "put"
    /\ outcome \in {"ok", "error"}
    /\ auditOutcome \in {"ok", "error"}
    /\ LET c == mcall[r]
           stored == meterPutJSON(meter, c.key, c.doc, outcome)
           d == Decision(DecisionCount(c.doc, stored, c.key))
       IN  /\ meter' = stored
           /\ mcall' = [mcall EXCEPT ![r] =
                [c EXCEPT !.pc = "done", !.putOutcome = outcome, !.result = d,
                          !.ops = IF Audited(d) THEN @ + 1 ELSE @]]
           /\ mlogs' =
                IF Audited(d)
                THEN meterPutJSON(mlogs, MeterAuditKey(DayOf(c.window), now, c.vatNumber),
                                  [t |-> now, apiKey |-> c.apiKey, email |-> c.email,
                                   countryCode |-> c.countryCode,
                                   vatNumber |-> c.vatNumber],
                                  auditOutcome)
                ELSE mlogs
           /\ mcalls' = IF d.allowed
                        THEN [mcalls EXCEPT ![c.bucket].admitted = @ + 1]
                        ELSE mcalls
    /\ UNCHANGED <<now, S3_BUCKET, kvars, lvars, hvars, vvars>>

---------------------------------------------------------------------------
(* Entitlement records and the Stripe webhook (src/server.mjs, lines 102-443) *)

WReq == 1..NumW

Customers == { "cus_1" }

\* 'sk_live_' + crypto.randomBytes(24).toString('hex'): a key never seen before
KeyPool == <<"key-A", "key-B", "key-C", "key-D">>
NewKey(n) == KeyPool[n + 1]

\* GRACE_DAYS_AFTER_END and the length of a day, scaled to the clock
GRACE_DAYS_AFTER_END == 1
DayMs == 2

\* getJSON, lines 179-187: null when the key is absent or the request fails
webhookGetJSON(store, Key, outcome) ==
    IF outcome = "ok" /\ Key \in DOMAIN store THEN store[Key] ELSE NullRec

\* putJSON, lines 188-197, when the request succeeds (a failure rejects)
webhookPutJSON(store, Key, data) == (Key :> data) @@ store

\* keyRecord, lines 198-208 (email and createdAt are not modelled)
keyRecord(customerId, key, active, trialUntil, graceUntil) ==
    [customerId |-> customerId, key |-> key, active |-> active,
     trialUntil |-> trialUntil, graceUntil |-> graceUntil]

\* maxIso, lines 209-213
maxIso(a, b) ==
    IF IsNull(a) THEN b
    ELSE IF IsNull(b) THEN a
    ELSE IF getTime(a) > getTime(b) THEN a ELSE b

\* isoFromEpochSeconds, lines 263-267
isoFromEpochSeconds(sec) == IF sec = 0 THEN NullRec ELSE toISOString(sec * 1000)

\* addDays(null, days), lines 268-272
addDays(t, days) == toISOString(t + days * DayMs)

\* isSubInactive, lines 260-262
isSubInactive(status) == status \in {"canceled", "unpaid", "incomplete_expired"}

\* upsertEntitlement, lines 218-230: the record it puts after it read `record`
Upserted(record, customerId, key, active, trialUntil, graceUntil) ==
    IF IsNull(record)
    THEN keyRecord(customerId, key, active, trialUntil, graceUntil)
    ELSE [record EXCEPT !.active = active,
                        !.trialUntil = maxIso(@, trialUntil),
                        !.graceUntil = maxIso(@, graceUntil)]

\* deactivateEntitlement, lines 240-245: the record it puts after it read rec
Deactivated(rec, graceUntil) ==
    [rec EXCEPT !.active = FALSE, !.graceUntil = maxIso(@, graceUntil)]

\* Deliveries Stripe can send: the event type, the customer of its object
\* ("" when it has none), the status of the subscription, its trial_end in
\* seconds (0 for none) and whether the signature verifies
WEventTypes ==
    {"checkout.session.completed", "invoice.payment_succeeded",
     "customer.subscription.updated", "customer.subscription.deleted",
     "customer.created"}

\* a switch with a case that provisions on customer.created
WOperation_Created(ev) ==
    IF ev.customer = "" THEN "none"
    ELSE IF ev.type \in {"checkout.session.completed", "invoice.payment_succeeded",
                         "customer.created"}
         THEN "upsert"
    ELSE "none"

\* lines 356-436: what the switch does for an event: upsert, deactivate, or
\* nothing (no customer, or a type it ignores)
WOperation(ev) ==
    IF ev.customer = "" THEN "none"
    ELSE IF ev.type \in {"checkout.session.completed", "invoice.payment_succeeded"}
         THEN "upsert"
    ELSE IF ev.type \in {"customer.subscription.updated", "customer.subscription.deleted"}
         THEN (IF isSubInactive(ev.status) THEN "deactivate" ELSE "upsert")
    ELSE "none"

WEvent_(type, status, signed) ==
    [type |-> type, customer |-> "cus_1", status |-> status, trialEnd |-> 0,
     signed |-> signed]

WEvents ==
    { WEvent_("checkout.session.completed", "", TRUE),
      WEvent_("checkout.session.completed", "", FALSE),
      WEvent_("invoice.payment_succeeded", "", TRUE),
      WEvent_("customer.subscription.updated", "active", TRUE),
      WEvent_("customer.subscription.updated", "unpaid", TRUE),
      WEvent_("customer.subscription.deleted", "canceled", TRUE),
      WEvent_("customer.created", "", TRUE) }

IdleW ==
    [pc |-> "idle", op |-> "", customer |-> "", trialUntil |-> NullRec,
     graceUntil |-> NullRec, rec |-> NullRec, status |-> 0]

\* the delivery is answered; its locals are gone
WRespond(status) == [IdleW EXCEPT !.pc = "done", !.status = status]

NotHandled == [op |-> "none", hadKey |-> FALSE]

\* lines 346-374 and 409-421: a delivery arrives. A signature that does not
\* verify is answered 400; an event without customer or of another type is
\* answered 200; otherwise the Stripe lookups of trial end and email are made
\* (they touch no record; their failures are swallowed) and the read of
\* keys/<customer>.json is sent.
WEvent(w, ev) ==
    /\ whook[w].pc \in {"idle", "done"}
    /\ whook' = [whook EXCEPT ![w] =
            IF ~ev.signed THEN WRespond(400)
            ELSE IF WOperation(ev) = "none" THEN WRespond(200)
            ELSE [IdleW EXCEPT !.pc = "read", !.op = WOperation(ev),
                               !.customer = ev.customer,
                               !.trialUntil = IF WOperation(ev) = "upsert"
                                              THEN isoFromEpochSeconds(ev.trialEnd)
                                              ELSE NullRec,
                               !.graceUntil = IF WOperation(ev) = "deactivate"
                                              THEN addDays(now, GRACE_DAYS_AFTER_END)
                                              ELSE NullRec]]
    /\ UNCHANGED <<now, S3_BUCKET, ENFORCE_STRIPE, keys, bykey, issued, handled,
                   hvars, vvars, mvars, lvars>>

\* lines 216-231 and 237-246: the read of keys/<customer>.json ends. An upsert
\* builds its record, with a new key when it got no record; a deactivation
\* that got no record returns null and the delivery is answered 200;
\* otherwise the put of keys/<customer>.json is sent.
WReadDone(w, outcome) ==
    /\ whook[w].pc = "read"
    /\ outcome \in {"ok", "error"}
    /\ LET c == whook[w]
           record == webhookGetJSON(keys, c.customer, outcome)
           fresh == c.op = "upsert" /\ IsNull(record)
       IN  /\ fresh => (issued < MaxKeys /\ issued < Len(KeyPool))
           /\ issued' = IF fresh THEN issued + 1 ELSE issued
           /\ IF c.op = "deactivate" /\ IsNull(record)
              THEN /\ whook' = [whook EXCEPT ![w] = WRespond(200)]
                   /\ handled' = [handled EXCEPT ![c.customer] =
                            [op |-> "deactivate", hadKey |-> c.customer \in DOMAIN keys]]
              ELSE /\ whook' = [whook EXCEPT ![w] =
                        [c EXCEPT !.pc = "putCust",
                                  !.rec = IF c.op = "upsert"
                                          THEN Upserted(record, c.customer, NewKey(issued),
                                                        TRUE, c.trialUntil, c.graceUntil)
                                          ELSE Deactivated(record, c.graceUntil)]]
                   /\ UNCHANGED handled
    /\ UNCHANGED <<now, S3_BUCKET, ENFORCE_STRIPE, keys, bykey, hvars, vvars, mvars, lvars>>

\* lines 231-232 and 246-247: the put of keys/<customer>.json ends; the put of
\* keys/by-key/<key>.json is sent, or the failure is answered 500 (437-440)
WPutCustDone(w, outcome) ==
    /\ whook[w].pc = "putCust"
    /\ outcome \in {"ok", "error"}
    /\ LET c == whook[w]
       IN  IF outcome = "ok"
           THEN /\ keys' = webhookPutJSON(keys, c.customer, c.rec)
                /\ whook' = [whook EXCEPT ![w] = [c EXCEPT !.pc = "putByKey"]]
           ELSE /\ whook' = [whook EXCEPT ![w] = WRespond(500)]
                /\ UNCHANGED keys
    /\ UNCHANGED <<now, S3_BUCKET, ENFORCE_STRIPE, bykey, issued, handled,
                   hvars, vvars, mvars, lvars>>

\* lines 232-233, 247-248, 380 and 416-417: the put of keys/by-key/<key>.json
\* ends. A deactivation is answered 200, an upsert goes on to mail the key,
\* a failure is answered 500.
WPutByKeyDone(w, outcome) ==
    /\ whook[w].pc = "putByKey"
    /\ outcome \in {"ok", "error"}
    /\ LET c == whook[w]
       IN  IF outcome = "ok"
           THEN /\ bykey' = webhookPutJSON(bykey, c.rec.key, c.rec)
                /\ IF c.op = "deactivate"
                   THEN /\ whook' = [whook EXCEPT ![w] = WRespond(200)]
                        /\ handled' = [handled EXCEPT ![c.customer] =
                                [op |-> "deactivate", hadKey |-> TRUE]]
                   ELSE /\ whook' = [whook EXCEPT ![w] = [c EXCEPT !.pc = "mail"]]
                        /\ UNCHANGED handled
           ELSE /\ whook' = [whook EXCEPT ![w] = WRespond(500)]
                /\ UNCHANGED <<bykey, handled>>
    /\ UNCHANGED <<now, S3_BUCKET, ENFORCE_STRIPE, keys, issued, hvars, vvars, mvars, lvars>>

\* lines 275-343 and 380-442: emailKey ends (it swallows every failure); the
\* delivery is answered 200
WMailDone(w) ==
    /\ whook[w].pc = "mail"
    /\ whook' = [whook EXCEPT ![w] = WRespond(200)]
    /\ handled' = [handled EXCEPT ![whook[w].customer] =
            [op |-> "upsert", hadKey |-> TRUE]]
    /\ UNCHANGED <<now, S3_BUCKET, ENFORCE_STRIPE, keys, bykey, issued,
                   hvars, vvars, mvars, lvars>>

\* an upsert for the customer is under way
Upserting(customer) ==
    \E w \in WReq : whook[w].op = "upsert" /\ whook[w].customer = customer

\* the key belongs to a customer whose last delivery answered 200 was a
\* deactivation that found the customer's record, and no upsert for that
\* customer is under way
RevokedKey(apiKey) ==
    \E c \in DOMAIN keys :
        /\ keys[c].key = apiKey
        /\ handled[c] = [op |-> "deactivate", hadKey |-> TRUE]
        /\ ~Upserting(c)

---------------------------------------------------------------------------
(* assertActivePlus (src/entitlement.js, lines 27-118) *)

\* How the Stripe part of assertActivePlus can end once the key is accepted:
\* it returns, the customer has no subscription in an allowed status, none
\* with an allowed price, or the lookup fails otherwise ("no_customer" stands
\* for every message the handler does not know)
StripeOutcomes == {"ok", "no_active_subscription", "price_not_allowed", "no_customer"}

\* getEntitlementByKeyFromS3, lines 27-43
getEntitlementByKeyFromS3(apiKey, outcome) ==
    IF outcome = "ok" /\ apiKey \in DOMAIN bykey THEN bykey[apiKey] ELSE NullRec

\* assertActivePlus, lines 50-118, for a request that carries an API key:
\* "ok" when it returns, else the message of the Error it throws
assertActivePlus(apiKey, outcome, stripe) ==
    IF ~ENFORCE_STRIPE THEN "ok"
    ELSE LET entitlement == getEntitlementByKeyFromS3(apiKey, outcome)
         IN  IF IsNull(entitlement) THEN "invalid_key"
             ELSE IF entitlement.active = FALSE THEN "key_revoked"
             ELSE stripe

---------------------------------------------------------------------------
(* The listener of src/webhook.js (download email, S3 idempotency marker) *)

DReq == 1..NumD

EventIds == { "evt_1", "evt_2" }

\* lines 102-104: the event types that trigger the email
Eligible(type) == type \in {"checkout.session.completed", "invoice.paid"}

LEventTypes == {"checkout.session.completed", "invoice.paid", "customer.created"}

\* a guard that counts only the marker of an email that went out
seenEvent_SentOnly(eventId, outcome) ==
    outcome = "ok" /\ eventId \in DOMAIN marks /\ "sentTo" \in DOMAIN marks[eventId]

\* seenEvent, lines 55-65: headObject succeeded
seenEvent(eventId, outcome) == outcome = "ok" /\ eventId \in DOMAIN marks

\* markEvent, lines 67-81: the markers after the put; a failure is swallowed
markEvent(eventId, payload, outcome) ==
    IF outcome = "ok" THEN (eventId :> payload) @@ marks ELSE marks

IdleD == [pc |-> "idle", id |-> "", type |-> "", mark |-> NullRec, status |-> 0]

\* lines 83-97: a delivery arrives; a signature that does not verify is
\* answered 400, otherwise the head request for the marker is sent
LDeliver(d, id, type, signed) ==
    /\ lhook[d].pc \in {"idle", "done"}
    /\ delivered < MaxDeliveries
    /\ delivered' = delivered + 1
    /\ lhook' = [lhook EXCEPT ![d] =
            IF ~signed THEN [IdleD EXCEPT !.pc = "done", !.id = id, !.status = 400]
            ELSE [IdleD EXCEPT !.pc = "seen", !.id = id, !.type = type]]
    /\ UNCHANGED <<now, S3_BUCKET, kvars, hvars, vvars, mvars, marks, mails>>

\* lines 97-137: seenEvent ends. A marked event is answered 200; an event of
\* another type is marked as skipped; resolveEmail runs (email tells whether
\* it found an address) and either the marker no_email is put or the email
\* is handed to the transporter.
LSeenDone(d, outcome, email) ==
    /\ lhook[d].pc = "seen"
    /\ outcome \in StoreOutcomes
    /\ LET c == lhook[d]
       IN  lhook' = [lhook EXCEPT ![d] =
                IF seenEvent(c.id, outcome) THEN [c EXCEPT !.pc = "done", !.status = 200]
                ELSE IF ~Eligible(c.type)
                     THEN [c EXCEPT !.pc = "mark", !.status = 200,
                                    !.mark = [type |-> c.type, skipped |-> TRUE]]
                ELSE IF ~email
                     THEN [c EXCEPT !.pc = "mark", !.status = 400,
                                    !.mark = [type |-> c.type, error |-> "no_email"]]
                ELSE [c EXCEPT !.pc = "send"]]
    /\ UNCHANGED <<now, S3_BUCKET, kvars, hvars, vvars, mvars, marks, mails, delivered>>

\* lines 137-161: sendMail ends; the email went out, or the dispatch failed;
\* the marker of either outcome is put
LSendDone(d, sent) ==
    /\ lhook[d].pc = "send"
    /\ LET c == lhook[d]
       IN  /\ mails' = IF sent THEN [mails EXCEPT ![c.id] = @ + 1] ELSE mails
           /\ lhook' = [lhook EXCEPT ![d] =
                IF sent
                THEN [c EXCEPT !.pc = "mark", !.status = 200,
                               !.mark = [type |-> c.type, sentTo |-> "a@example.com"]]
                ELSE [c EXCEPT !.pc = "mark", !.status = 500,
                               !.mark = [type |-> c.type, error |-> "send_failed"]]]
    /\ UNCHANGED <<now, S3_BUCKET, kvars, hvars, vvars, mvars, marks, delivered>>

\* lines 107-108, 114-115, 146-154 and 157-162: markEvent ends (either way);
\* the delivery is answered
LMarkDone(d, outcome) ==
    /\ lhook[d].pc = "mark"
    /\ outcome \in StoreOutcomes
    /\ marks' = markEvent(lhook[d].id, lhook[d].mark, outcome)
    /\ lhook' = [lhook EXCEPT ![d] = [@ EXCEPT !.pc = "done"]]
    /\ UNCHANGED <<now, S3_BUCKET, kvars, hvars, vvars, mvars, mails, delivered>>

---------------------------------------------------------------------------
(* The lookup handlers: vatHandler (src/validate.js) and the handler of
   POST /vat/lookup in src/server.mjs *)

\* a request runs its own meterAndCheck and checkVAT invocations
HReq == VReq \cap MReq

\* Values of the x-api-key and x-customer-email headers ("" stands for a
\* missing header) and of the body fields (<<>> for a missing field)
HRequests ==
    { [apiKey |-> "key-A", email |-> "a@example.com",
       countryCode |-> <<"D", "E">>, vatNumber |-> <<"1", "2">>],
      [apiKey |-> "key-A", email |-> "a@example.com",
       countryCode |-> <<" ", "d", "e", " ">>, vatNumber |-> <<"1", " ", "2">>],
      [apiKey |-> "", email |-> "a@example.com",
       countryCode |-> <<"D", "E">>, vatNumber |-> <<"1", "2">>],
      [apiKey |-> "key-A", email |-> "",
       countryCode |-> <<"D", "E">>, vatNumber |-> <<"1", "2">>],
      [apiKey |-> "key-A", email |-> "a@example.com",
       countryCode |-> <<>>, vatNumber |-> <<"1", "2">>],
      [apiKey |-> "key-A", email |-> "a@example.com",
       countryCode |-> <<"D", "E">>, vatNumber |-> <<>>],
      [apiKey |-> "", email |-> "",
       countryCode |-> <<"D", "E">>, vatNumber |-> <<"1", "2">>],
      [apiKey |-> "key-A", email |-> "",
       countryCode |-> <<>>, vatNumber |-> <<"1", "2">>] }

\* process.env.API_KEY of the handler in src/server.mjs
API_KEY == "key-A"

IdleH ==
    [pc |-> "idle", apiKey |-> "", email |-> "", countryCode |-> <<>>,
     vatNumber |-> <<>>, meterRes |-> NullRec, status |-> 0, body |-> NullRec,
     headers |-> <<>>, trace |-> <<>>, code |-> "", revoked |-> FALSE]

NoRejection == [status |-> 0]

\* renderPlusPage, lines 271-274: the errors the quickstart page lists
DocumentedErrors ==
    { <<401, "invalid_key">>, <<401, "missing_api_key">>,
      <<401, "missing_customer_email">>, <<403, "access_denied">>,
      <<403, "key_revoked">>, <<403, "plan_not_allowed">>,
      <<429, "rate_limit_exceeded">> }

\* vatHandler, lines 355-357: the header and body checks
RequestCheck(apiKey, email, countryCode, vatNumber) ==
    IF apiKey = "" THEN [status |-> 401, body |-> [error |-> "missing_api_key"]]
    ELSE IF email = "" THEN [status |-> 401, body |-> [error |-> "missing_customer_email"]]
    ELSE IF countryCode = <<>> \/ vatNumber = <<>>
         THEN [status |-> 400, body |-> [error |-> "missing_vat_data"]]
    ELSE NoRejection

\* src/server.mjs, lines 30-35: the header and body checks
LookupRequestCheck(apiKey, email, countryCode, vatNumber) ==
    IF apiKey # API_KEY THEN [status |-> 401, body |-> [error |-> "Invalid API key"]]
    ELSE IF email = "" THEN [status |-> 401, body |-> [error |-> "Missing customer email"]]
    ELSE IF countryCode = <<>> \/ vatNumber = <<>>
         THEN [status |-> 400, body |-> [error |-> "Missing VAT data"]]
    ELSE NoRejection

\* How assertActivePlus can end: it returns ("ok") or throws an Error with
\* one of these messages (src/entitlement.js); "no_customer" also stands for
\* every message the handler does not know
EntitlementOutcomes ==
    {"ok", "invalid_key", "key_revoked", "no_active_subscription",
     "price_not_allowed", "no_customer"}

\* vatHandler, lines 362-368: the response to a failed entitlement check
EntitlementRejection(code) ==
    IF code = "invalid_key" THEN [status |-> 401, body |-> [error |-> "invalid_api_key"]]
    ELSE IF code = "key_revoked" THEN [status |-> 403, body |-> [error |-> "key_revoked"]]
    ELSE IF code = "no_active_subscription"
         THEN [status |-> 403, body |-> [error |-> "access_denied"]]
    ELSE IF code = "price_not_allowed"
         THEN [status |-> 403, body |-> [error |-> "plan_not_allowed"]]
    ELSE [status |-> 403, body |-> [error |-> "access_denied"]]

\* src/server.mjs, lines 44-47 and 55-58: any failure of the Stripe lookup or
\* of assertActivePlus
LookupEntitlementRejection(code) == [status |-> 403, body |-> [error |-> "Access denied"]]

DigitChar(d) ==
    IF d = 0 THEN "0" ELSE IF d = 1 THEN "1" ELSE IF d = 2 THEN "2"
    ELSE IF d = 3 THEN "3" ELSE IF d = 4 THEN "4" ELSE IF d = 5 THEN "5"
    ELSE IF d = 6 THEN "6" ELSE IF d = 7 THEN "7" ELSE IF d = 8 THEN "8" ELSE "9"

\* String(n) of a non-negative integer: its decimal digits
RECURSIVE String(_)
String(n) == IF n < 10 THEN <<DigitChar(n)>> ELSE String(n \div 10) \o <<DigitChar(n % 10)>>

\* the header set on admitted responses only
RateHeaders_AdmittedOnly(meterRes) ==
    IF "remaining" \in DOMAIN meterRes /\ meterRes.allowed
    THEN [name \in {"X-Rate-Remaining"} |-> String(meterRes.remaining)]
    ELSE <<>>

\* vatHandler, line 373: the response headers after meterAndCheck returned
RateHeaders(meterRes) ==
    IF "remaining" \in DOMAIN meterRes
    THEN [name \in {"X-Rate-Remaining"} |-> String(meterRes.remaining)]
    ELSE <<>>

\* src/server.mjs, line 62: only allowed and reason are taken from the result
LookupRateHeaders(meterRes) == <<>>

\* lines 374 and 63: meterRes.reason || 'rate_limit_exceeded'
MeterRejection(meterRes) ==
    [status |-> 429,
     body |-> [error |-> IF "reason" \in DOMAIN meterRes
                         THEN OrElse(meterRes.reason, "rate_limit_exceeded")
                         ELSE "rate_limit_exceeded"]]

\* a handler that lets every request through to checkVAT
Admitted_Always(meterRes) == TRUE

\* line 374 (src/server.mjs 63): !meterRes.allowed answers 429
Admitted(meterRes) == meterRes.allowed

\* vatHandler, line 378: every result of checkVAT is sent with status 200
ResultStatus(result) == 200

\* src/server.mjs, line 83: result?.error ? 502 : 200
LookupResultStatus(result) ==
    IF "error" \in DOMAIN result /\ result.error # <<>> THEN 502 ELSE 200

\* lines 379-382: the response when checkVAT rejects
ServerError == [status |-> 500, body |-> [error |-> "server_error"]]

\* src/server.mjs, lines 91-94 (err.message of a rejection without message)
LookupServerError ==
    [status |-> 500, body |-> [valid |-> FALSE, error |-> "validation_failed"]]

Respond(h, rsp) ==
    [hreq[h] EXCEPT !.pc = "responded", !.status = rsp.status, !.body = rsp.body]

\* lines 349-361 (src/server.mjs 25-38): a request arrives; the header and
\* body checks run and the entitlement check is sent
HRequest(h, apiKey, email, countryCode, vatNumber) ==
    /\ hreq[h].pc \in {"idle", "responded"}
    /\ TotalCalls < MaxHandlerCalls
    /\ LET rej == IF server = "vatHandler"
                  THEN RequestCheck(apiKey, email, countryCode, vatNumber)
                  ELSE LookupRequestCheck(apiKey, email, countryCode, vatNumber)
           req == [IdleH EXCEPT !.apiKey = apiKey, !.email = email,
                                !.countryCode = countryCode, !.vatNumber = vatNumber]
       IN  hreq' = [hreq EXCEPT ![h] =
                IF rej = NoRejection
                THEN [req EXCEPT !.pc = "entitlement", !.trace = <<"entitlement">>]
                ELSE [req EXCEPT !.pc = "responded", !.status = rej.status,
                                 !.body = rej.body]]
    /\ UNCHANGED <<now, S3_BUCKET, kvars, lvars, server, vvars, mvars>>

\* lines 361-372 (src/server.mjs 38-62): the entitlement check ends: the
\* read of keys/by-key/<key>.json with the given outcome, then the Stripe
\* lookups (the handler of src/server.mjs makes the Stripe lookups only); a
\* failure is answered, a success goes on to meterAndCheck. code is what
\* the check threw; revoked tells whether the key stood revoked at the check.
HEntitlementDone(h, outcome, stripe) ==
    /\ hreq[h].pc = "entitlement"
    /\ outcome \in {"ok", "error"}
    /\ stripe \in StripeOutcomes
    /\ LET code == IF server = "vatHandler"
                   THEN assertActivePlus(hreq[h].apiKey, outcome, stripe)
                   ELSE stripe
       IN  /\ code \in EntitlementOutcomes
           /\ hreq' = [hreq EXCEPT ![h] =
                IF code = "ok"
                THEN [@ EXCEPT !.pc = "meter", !.trace = Append(@, "meterAndCheck"),
                               !.revoked = RevokedKey(hreq[h].apiKey)]
                ELSE [Respond(h, IF server = "vatHandler"
                                 THEN EntitlementRejection(code)
                                 ELSE LookupEntitlementRejection(code))
                        EXCEPT !.code = code, !.revoked = RevokedKey(hreq[h].apiKey)]]
    /\ UNCHANGED <<now, S3_BUCKET, kvars, lvars, server, vvars, mvars>>

\* line 372 (src/server.mjs 62): meterAndCheck is called with the request's
\* key, email and body fields
HCallMeter(h) ==
    /\ hreq[h].pc = "meter"
    /\ mcall[h].pc = "idle"
    /\ MCall(h, hreq[h].apiKey, hreq[h].email, hreq[h].countryCode, hreq[h].vatNumber)

\* lines 372-377 (src/server.mjs 62-63 and 79-82): meterAndCheck returned
\* (its locals are gone); set the header, answer 429 or go on to checkVAT
HMeterDone(h) ==
    /\ hreq[h].pc = "meter"
    /\ mcall[h].pc = "done"
    /\ LET meterRes == mcall[h].result
           hdr == IF server = "vatHandler" THEN RateHeaders(meterRes)
                  ELSE LookupRateHeaders(meterRes)
       IN  hreq' = [hreq EXCEPT ![h] =
                IF ~Admitted(meterRes)
                THEN [Respond(h, MeterRejection(meterRes)) EXCEPT
                          !.meterRes = meterRes, !.headers = hdr]
                ELSE [@ EXCEPT !.pc = "validate", !.meterRes = meterRes,
                               !.headers = hdr, !.trace = Append(@, "checkVAT")]]
    /\ mcall' = [mcall EXCEPT ![h] = IdleM]
    /\ UNCHANGED <<now, S3_BUCKET, kvars, lvars, server, vvars, meter, mlogs, mcalls>>

\* line 377 (src/server.mjs 82): checkVAT is called with the body fields as
\* they came
HCallCheckVAT(h) ==
    /\ hreq[h].pc = "validate"
    /\ vcall[h].pc = "idle"
    /\ VCall(h, hreq[h].countryCode, hreq[h].vatNumber, hreq[h].email)

\* lines 378-382 (src/server.mjs 83-84 and 91-94): checkVAT returned, or
\* rejected (its locals are gone); the response is sent
HRespond(h) ==
    /\ hreq[h].pc = "validate"
    /\ vcall[h].pc \in {"done", "threw"}
    /\ LET result == vcall[h].result
       IN  hreq' = [hreq EXCEPT ![h] =
                IF vcall[h].pc = "threw"
                THEN Respond(h, IF server = "vatHandler" THEN ServerError
                                ELSE LookupServerError)
                ELSE Respond(h, [status |-> IF server = "vatHandler"
                                            THEN ResultStatus(result)
                                            ELSE LookupResultStatus(result),
                                 body |-> result])]
    /\ vcall' = [vcall EXCEPT ![h] = IdleV]
    /\ UNCHANGED <<now, S3_BUCKET, kvars, lvars, server, cache, vlogs, mvars>>

\* time passes
Tick(bound) ==
    /\ now < bound
    /\ now' = now + 1
    /\ UNCHANGED <<S3_BUCKET, kvars, lvars, vvars, mvars, hvars>>

\* the bucket of a deployment whose one customer was given a key earlier
ProvisionedRecord == keyRecord("cus_1", NewKey(0), TRUE, NullRec, NullRec)

KeysProvisioned ==
    /\ ENFORCE_STRIPE = TRUE
    /\ keys = ("cus_1" :> ProvisionedRecord)
    /\ bykey = (NewKey(0) :> ProvisionedRecord)
    /\ issued = 1
    /\ whook = [w \in WReq |-> IdleW]
    /\ handled = [c \in Customers |-> [op |-> "upsert", hadKey |-> TRUE]]

\* a deployment over a bucket without entitlement records
KeysEmpty ==
    /\ ENFORCE_STRIPE \in BOOLEAN
    /\ keys = <<>>
    /\ bykey = <<>>
    /\ issued = 0
    /\ whook = [w \in WReq |-> IdleW]
    /\ handled = [c \in Customers |-> NotHandled]

InitRequests(srv) ==
    /\ now = 0
    /\ S3_BUCKET \in BOOLEAN
    /\ cache = <<>>
    /\ vlogs = <<>>
    /\ vcall = [r \in VReq |-> IdleV]
    /\ meter = <<>>
    /\ mlogs = <<>>
    /\ mcall = [r \in MReq |-> IdleM]
    /\ mcalls = <<>>
    /\ server = srv
    /\ hreq = [h \in HReq |-> IdleH]

\* the listener of src/webhook.js before its first delivery
ListenerIdle ==
    /\ marks = <<>>
    /\ lhook = [d \in DReq |-> IdleD]
    /\ mails = [id \in EventIds |-> 0]
    /\ delivered = 0

InitWith(srv) == InitRequests(srv) /\ KeysProvisioned /\ ListenerIdle

Init == InitWith("vatHandler")

NextV ==
    \/ \E r \in VReq, cc \in CountryInputs, vn \in VatInputs, e \in Emails : VCall(r, cc, vn, e)
    \/ \E r \in VReq, o \in {"ok", "error", "unconfigured"} : VAuditDone(r, o)
    \/ \E r \in VReq, o \in ClientOutcomes : VClientDone(r, o)
    \/ \E r \in VReq, up \in AllUpstreamOutcomes : VViesDone(r, up)
    \/ \E r \in VReq, o \in {"ok", "error", "unconfigured"} : VSetCachedDone(r, o)
    \/ \E r \in VReq, o \in {"ok", "error", "unconfigured"} : VGetCachedDone(r, o)
    \/ Tick(MaxClock)

\* checkVAT invocations over the bucket, upstream and store failing at will
SpecV == Init /\ [][NextV]_vars

\* one checkVAT invocation at a time
NextVOne ==
    \/ \E cc \in CountryInputs, vn \in VatInputs, e \in Emails : VCall(1, cc, vn, e)
    \/ \E o \in {"ok", "error", "unconfigured"} : VAuditDone(1, o)
    \/ \E o \in ClientOutcomes : VClientDone(1, o)
    \/ \E up \in AllUpstreamOutcomes : VViesDone(1, up)
    \/ \E o \in {"ok", "error", "unconfigured"} : VSetCachedDone(1, o)
    \/ \E o \in {"ok", "error", "unconfigured"} : VGetCachedDone(1, o)
    \/ Tick(MaxClock)

\* What ends by itself: the S3 requests (the SDK answers or gives up) and
\* createClientAsync (its download has a timeout). Nothing in the code ends
\* checkVatAsync when the upstream does not answer, so VViesDone is not fair.
FairV ==
    /\ WF_vars(\E o \in {"ok", "error", "unconfigured"} : VAuditDone(1, o))
    /\ WF_vars(\E o \in ClientOutcomes : VClientDone(1, o))
    /\ WF_vars(\E o \in {"ok", "error", "unconfigured"} : VSetCachedDone(1, o))
    /\ WF_vars(\E o \in {"ok", "error", "unconfigured"} : VGetCachedDone(1, o))

\* a checkVAT invocation whose awaited requests end when the code makes them end
SpecVLive == Init /\ [][NextVOne]_vars /\ FairV

NextVShared ==
    \/ \E cc \in CountryInputs, vn \in VatInputs, e \in Emails : VCall(1, cc, vn, e)
    \/ \E o \in {"ok", "error", "unconfigured"} : VAuditDone(1, o)
    \/ \E o \in ClientOutcomes : VClientDone(1, o)
    \/ \E up \in AllUpstreamOutcomes : VViesDone(1, up)
    \/ \E o \in {"ok", "error", "unconfigured"} : VSetCachedDone(1, o)
    \/ \E o \in {"ok", "error", "unconfigured"} : VGetCachedDone(1, o)
    \/ \E cc \in LegacyCountries, vn \in LegacyVats, e \in Emails,
          up \in LegacyUpstreamOutcomes, o \in {"ok", "error", "unconfigured"} :
            LegacyValidateVAT(cc, vn, e, up, o, o)
    \/ Tick(MaxClock)

\* a checkVAT invocation over a bucket that validateVAT of src/lib/validate.js
\* writes as well
SpecVShared == Init /\ [][NextVShared]_vars

NextM ==
    \/ \E r \in MReq, k \in ApiKeys, e \in Emails, cc \in MeterCountries, vn \in MeterVats :
            MCall(r, k, e, cc, vn)
    \/ \E r \in MReq, o \in {"ok", "error"} : MGetDone(r, o)
    \/ \E r \in MReq, o \in {"ok", "error"}, ao \in {"ok", "error"} : MPutDone(r, o, ao)
    \/ Tick(MaxMeterClock)

\* meterAndCheck invocations, overlapping at will, the store failing at will
SpecM == Init /\ [][NextM]_vars

\* No invocation for apiKey is suspended between its read and its decision
NoneInFlight(apiKey) ==
    \A q \in MReq : mcall[q].pc \in {"get", "put"} => mcall[q].apiKey # apiKey

InitConfigured == Init /\ S3_BUCKET

\* two customers' keys
TwoApiKeys == { "key-A", "key-B" }

NextM2 ==
    \/ \E r \in MReq, k \in TwoApiKeys, e \in Emails, cc \in MeterCountries, vn \in MeterVats :
            MCall(r, k, e, cc, vn)
    \/ \E r \in MReq : MGetDone(r, "ok")
    \/ \E r \in MReq, o \in {"ok", "error"} : MPutDone(r, o, "ok")
    \/ Tick(MaxMeterClock)

\* meterAndCheck invocations for two API keys, overlapping at will, counter
\* puts failing at will
SpecM2 == InitConfigured /\ [][NextM2]_vars

NextMSeq ==
    \/ \E r \in MReq, k \in ApiKeys, e \in Emails, cc \in MeterCountries, vn \in MeterVats :
            NoneInFlight(k) /\ MCall(r, k, e, cc, vn)
    \/ \E r \in MReq : MGetDone(r, "ok")
    \/ \E r \in MReq, ao \in {"ok", "error"} : MPutDone(r, "ok", ao)
    \/ Tick(MaxMeterClock)

\* meterAndCheck invocations that do not overlap for one key, over a working store
SpecMSeq == InitConfigured /\ [][NextMSeq]_vars

\* the server of src/validate.js does not start without a bucket (line 201)
InitServer == Init /\ S3_BUCKET

NextH ==
    \/ \E h \in HReq, q \in HRequests :
            HRequest(h, q.apiKey, q.email, q.countryCode, q.vatNumber)
    \/ \E h \in HReq, o \in {"ok", "error"}, st \in StripeOutcomes :
            HEntitlementDone(h, o, st)
    \/ \E h \in HReq : HCallMeter(h)
    \/ \E r \in HReq, o \in {"ok", "error"} : MGetDone(r, o)
    \/ \E r \in HReq : MPutDone(r, "ok", "ok")
    \/ \E h \in HReq : HMeterDone(h)
    \/ \E h \in HReq : HCallCheckVAT(h)
    \/ \E r \in HReq : VAuditDone(r, "ok")
    \/ \E r \in HReq, o \in ClientOutcomes : VClientDone(r, o)
    \/ \E r \in HReq, up \in AllUpstreamOutcomes : VViesDone(r, up)
    \/ \E r \in HReq : VSetCachedDone(r, "ok")
    \/ \E r \in HReq, o \in {"ok", "error"} : VGetCachedDone(r, o)
    \/ \E h \in HReq : HRespond(h)

\* lookup requests to vatHandler, overlapping at will, within one instant of
\* the clock; entitlement, upstream and the reads of the bucket failing at
\* will (the puts succeed)
SpecH == InitServer /\ [][NextH]_vars

\* the deployment of src/server.mjs with VATFIX_PLUS=1 and a bucket
InitLookup == InitWith("lookup") /\ S3_BUCKET

\* lookup requests to the handler of src/server.mjs
SpecL == InitLookup /\ [][NextH]_vars

\* a deployment of vatHandler and of the webhook over an empty bucket
InitFresh == InitRequests("vatHandler") /\ S3_BUCKET /\ KeysEmpty /\ ListenerIdle

NextD ==
    \/ \E d \in DReq, id \in EventIds, type \in LEventTypes, signed \in BOOLEAN :
            LDeliver(d, id, type, signed)
    \/ \E d \in DReq, o \in {"ok", "error", "unconfigured"}, email \in BOOLEAN :
            LSeenDone(d, o, email)
    \/ \E d \in DReq, sent \in BOOLEAN : LSendDone(d, sent)
    \/ \E d \in DReq, o \in {"ok", "error", "unconfigured"} : LMarkDone(d, o)

\* deliveries to the listener of src/webhook.js, overlapping at will, the
\* bucket failing at will or not configured
SpecD == Init /\ [][NextD]_vars

\* No delivery of the event is under way
NoDeliveryOf(id) ==
    \A d \in DReq : lhook[d].pc \in {"seen", "send", "mark"} => lhook[d].id # id

NextDSeq ==
    \/ \E d \in DReq, id \in EventIds, type \in LEventTypes, signed \in BOOLEAN :
            NoDeliveryOf(id) /\ LDeliver(d, id, type, signed)
    \/ \E d \in DReq, email \in BOOLEAN : LSeenDone(d, "ok", email)
    \/ \E d \in DReq, sent \in BOOLEAN : LSendDone(d, sent)
    \/ \E d \in DReq : LMarkDone(d, "ok")

\* the same with no two deliveries of one event overlapping, over a working
\* bucket
SpecDSeq == InitConfigured /\ [][NextDSeq]_vars

NextDOk ==
    \/ \E d \in DReq, id \in EventIds, type \in LEventTypes, signed \in BOOLEAN :
            LDeliver(d, id, type, signed)
    \/ \E d \in DReq, email \in BOOLEAN : LSeenDone(d, "ok", email)
    \/ \E d \in DReq, sent \in BOOLEAN : LSendDone(d, sent)
    \/ \E d \in DReq : LMarkDone(d, "ok")

\* deliveries overlapping at will over a working bucket
SpecDOk == InitConfigured /\ [][NextDOk]_vars

NextW ==
    \/ \E w \in WReq, ev \in WEvents : WEvent(w, ev)
    \/ \E w \in WReq, o \in {"ok", "error"} : WReadDone(w, o)
    \/ \E w \in WReq, o \in {"ok", "error"} : WPutCustDone(w, o)
    \/ \E w \in WReq, o \in {"ok", "error"} : WPutByKeyDone(w, o)
    \/ \E w \in WReq : WMailDone(w)

\* webhook deliveries, overlapping at will, the store failing at will
SpecW == InitFresh /\ [][NextW]_vars

NextWSeq ==
    \/ \E ev \in WEvents : WEvent(1, ev)
    \/ \E o \in {"ok", "error"} : WReadDone(1, o)
    \/ \E o \in {"ok", "error"} : WPutCustDone(1, o)
    \/ \E o \in {"ok", "error"} : WPutByKeyDone(1, o)
    \/ WMailDone(1)
    \/ Tick(MaxClock)

\* webhook deliveries handled one after another, the store failing at will
SpecWSeq == InitFresh /\ [][NextWSeq]_vars

NextWSeqRead ==
    \/ \E ev \in WEvents : WEvent(1, ev)
    \/ WReadDone(1, "ok")
    \/ \E o \in {"ok", "error"} : WPutCustDone(1, o)
    \/ \E o \in {"ok", "error"} : WPutByKeyDone(1, o)
    \/ WMailDone(1)
    \/ Tick(MaxClock)

\* the same over a bucket whose reads succeed (its puts fail at will)
SpecWSeqRead == InitFresh /\ [][NextWSeqRead]_vars

NextWOk ==
    \/ \E w \in WReq, ev \in WEvents : WEvent(w, ev)
    \/ \E w \in WReq : WReadDone(w, "ok")
    \/ \E w \in WReq : WPutCustDone(w, "ok")
    \/ \E w \in WReq : WPutByKeyDone(w, "ok")
    \/ \E w \in WReq : WMailDone(w)

\* webhook deliveries, overlapping at will within one instant of the clock,
\* over a bucket whose every request succeeds
SpecWOk == InitFresh /\ [][NextWOk]_vars

\* the deployment with VATFIX_ENFORCE_STRIPE switched on
InitEnforced == InitFresh /\ ENFORCE_STRIPE

\* deliveries about subscriptions with and without a trial: trial_end in
\* seconds, 0 for none
WTrialEvents ==
    { [WEvent_("checkout.session.completed", "", TRUE) EXCEPT !.trialEnd = 2],
      [WEvent_("invoice.payment_succeeded", "", TRUE) EXCEPT !.trialEnd = 1],
      WEvent_("invoice.payment_succeeded", "", TRUE),
      [WEvent_("customer.subscription.updated", "active", TRUE) EXCEPT !.trialEnd = 3],
      WEvent_("customer.subscription.updated", "unpaid", TRUE),
      WEvent_("customer.subscription.deleted", "canceled", TRUE) }

NextWT ==
    \/ \E ev \in WTrialEvents : WEvent(1, ev)
    \/ \E o \in {"ok", "error"} : WReadDone(1, o)
    \/ WPutCustDone(1, "ok")
    \/ WPutByKeyDone(1, "ok")
    \/ WMailDone(1)
    \/ Tick(MaxClock)

\* webhook deliveries handled one after another; reads of the customer
\* record fail at will, puts succeed
SpecWT == InitEnforced /\ [][NextWT]_vars

NextWTRead ==
    \/ \E ev \in WTrialEvents : WEvent(1, ev)
    \/ WReadDone(1, "ok")
    \/ \E o \in {"ok", "error"} : WPutCustDone(1, o)
    \/ \E o \in {"ok", "error"} : WPutByKeyDone(1, o)
    \/ WMailDone(1)
    \/ Tick(MaxClock)

\* the same over reads that succeed, puts failing at will
SpecWTRead == InitEnforced /\ [][NextWTRead]_vars

NextWL ==
    \/ \E ev \in WEvents : WEvent(1, ev)
    \/ \E o \in {"ok", "error"} : WReadDone(1, o)
    \/ WPutCustDone(1, "ok")
    \/ WPutByKeyDone(1, "ok")
    \/ WMailDone(1)
    \/ \E type \in LEventTypes, signed \in BOOLEAN : LDeliver(1, "evt_1", type, signed)
    \/ \E email \in BOOLEAN : LSeenDone(1, "ok", email)
    \/ \E sent \in BOOLEAN : LSendDone(1, sent)
    \/ LMarkDone(1, "ok")

\* deliveries to the webhook of src/server.mjs and to the listener of
\* src/webhook.js, one at a time each; reads of entitlement records fail at
\* will, the other requests to the bucket succeed
SpecWL == InitEnforced /\ [][NextWL]_vars

NextK ==
    \/ \E ev \in WEvents : WEvent(1, ev)
    \/ \E o \in {"ok", "error"} : WReadDone(1, o)
    \/ \E o \in {"ok", "error"} : WPutCustDone(1, o)
    \/ \E o \in {"ok", "error"} : WPutByKeyDone(1, o)
    \/ WMailDone(1)
    \/ \E q \in HRequests : HRequest(1, q.apiKey, q.email, q.countryCode, q.vatNumber)
    \/ \E o \in {"ok", "error"}, st \in StripeOutcomes : HEntitlementDone(1, o, st)
    \/ HCallMeter(1)
    \/ MGetDone(1, "ok")
    \/ MPutDone(1, "ok", "ok")
    \/ HMeterDone(1)
    \/ HCallCheckVAT(1)
    \/ VAuditDone(1, "ok")
    \/ VClientDone(1, "timeout")
    \/ VGetCachedDone(1, "ok")
    \/ HRespond(1)

\* one webhook delivery and one lookup request at a time, interleaved at
\* will, within one instant of the clock; the entitlement reads and every
\* request of the webhook to the bucket failing at will
SpecK == InitFresh /\ [][NextK]_vars

NextKOk ==
    \/ \E ev \in WEvents : WEvent(1, ev)
    \/ WReadDone(1, "ok")
    \/ WPutCustDone(1, "ok")
    \/ WPutByKeyDone(1, "ok")
    \/ WMailDone(1)
    \/ \E q \in HRequests : HRequest(1, q.apiKey, q.email, q.countryCode, q.vatNumber)
    \/ \E st \in StripeOutcomes : HEntitlementDone(1, "ok", st)
    \/ HCallMeter(1)
    \/ MGetDone(1, "ok")
    \/ MPutDone(1, "ok", "ok")
    \/ HMeterDone(1)
    \/ HCallCheckVAT(1)
    \/ VAuditDone(1, "ok")
    \/ VClientDone(1, "timeout")
    \/ VGetCachedDone(1, "ok")
    \/ HRespond(1)

\* the same over a bucket whose every request succeeds
SpecKOk == InitFresh /\ [][NextKOk]_vars

NextO ==
    \/ \E e \in Emails : VCall(1, <<"D", "E">>, <<"1", "2">>, e)
    \/ \E o \in {"ok", "error", "unconfigured"} : VAuditDone(1, o)
    \/ \E o \in ClientOutcomes : VClientDone(1, o)
    \/ \E up \in UpstreamOutcomes(<<"D", "E">>, <<"1", "2">>) : VViesDone(1, up)
    \/ \E o \in {"ok", "error", "unconfigured"} : VSetCachedDone(1, o)
    \/ \E o \in {"ok", "error", "unconfigured"} : VGetCachedDone(1, o)
    \/ \E k \in ApiKeys, e \in Emails, cc \in MeterCountries, vn \in MeterVats :
            MCall(1, k, e, cc, vn)
    \/ \E o \in {"ok", "error"} : MGetDone(1, o)
    \/ \E o \in {"ok", "error"}, ao \in {"ok", "error"} : MPutDone(1, o, ao)

\* one checkVAT invocation beside meterAndCheck invocations that follow one
\* another, within one instant of the clock, the store failing at will
SpecO == Init /\ [][NextO]_vars

---------------------------------------------------------------------------
(* Properties of checkVAT, checked under SpecV *)

Sources == {"vies", "cache", "error"}

VKey(r) == cacheKey(vcall[r].cc, vcall[r].vn)

\* r returned through the catch block (its upstream call failed)
FellBack(r) == vcall[r].pc = "done" /\ vcall[r].readOutcome # ""

\* r returned through the try block and its cache put succeeded
WroteCache(r) ==
    vcall[r].pc = "done" /\ vcall[r].result.source = "vies" /\ vcall[r].putOutcome = "ok"

\* the record the read delivered is younger than the TTL at the read
ReadFresh(r) ==
    /\ ~IsNull(vcall[r].rec)
    /\ vcall[r].readAt - vcall[r].rec.cachedAt.iso < CACHE_TTL_MS

\* C1: checkVAT never throws: whatever the upstream does (answer, exception,
\* timeout, null, garbage) and whatever the bucket does (ok, error on any
\* request, unconfigured), no invocation ends by throwing, and every
\* invocation that has returned holds a result whose source is vies, cache
\* or error.
C1_NeverThrows ==
    \A r \in VReq :
        /\ vcall[r].pc # "threw"
        /\ vcall[r].pc = "done" => vcall[r].result.source \in Sources

\* a null upstream answer and a failing cache read, ending in the soft failure
C1_Witness ==
    \E r \in VReq :
        /\ vcall[r].pc = "done"
        /\ vcall[r].up = "null"
        /\ vcall[r].readOutcome = "error"
        /\ vcall[r].result.source = "error"

\* C2: an upstream answer without a boolean valid field is handled like an
\* upstream exception: the invocation takes the cache-fallback path, sends no
\* cache put and never returns source vies.
C2_MalformedIsFailure ==
    \A r \in VReq :
        vcall[r].malformed =>
            /\ vcall[r].pc # "setCached"
            /\ vcall[r].putOutcome = ""
            /\ vcall[r].pc = "done" => vcall[r].result.source \in {"cache", "error"}

\* C3 as stated: if an invocation r1 succeeded upstream and its cache put
\* succeeded with write time t0, then an invocation r2 for the same pair that
\* was made after r1 returned, whose upstream call failed at t with
\* t - t0 < TTL, and that ends its lookup while the bucket still holds the
\* entry of r1, returns source cache, cached true and the valid, name and
\* address of the result of r1.
C3_RoundTripAsStated ==
    [][\A r2 \in VReq : \A r1 \in vcall[r2].prior :
          LET c == vcall[r2]
              k == VKey(r2)
              res == vcall'[r2].result
              orig == vcall[r1].result
          IN  ( /\ c.pc = "getCached"
                /\ vcall'[r2].pc \in {"done", "threw"}
                /\ WroteCache(r1)
                /\ ~vcall[r1].malformed
                /\ VKey(r1) = k
                /\ k \in DOMAIN cache
                /\ cache[k] = vcall[r1].put
                /\ c.failAt - cache[k].cachedAt.iso < CACHE_TTL_MS )
              => /\ res.source = "cache"
                 /\ "cached" \in DOMAIN res /\ res.cached
                 /\ res.valid = orig.valid
                 /\ res.name = orig.name
                 /\ res.address = orig.address]_vars

\* C3, amended: when the cache read of an invocation whose upstream call
\* failed succeeds and delivers, at read time t, an entry with t - t0 < TTL,
\* then that entry is the one a successful invocation for the same pair put,
\* and the result has source cache, cached true and the valid, name and
\* address that the successful invocation returned.
C3_RoundTrip ==
    \A r2 \in VReq :
        (FellBack(r2) /\ vcall[r2].readOutcome = "ok" /\ ReadFresh(r2)) =>
            \E r1 \in VReq \ {r2} :
                LET res == vcall[r2].result
                    orig == vcall[r1].result
                IN  /\ WroteCache(r1)
                    /\ VKey(r1) = VKey(r2)
                    /\ vcall[r2].rec = vcall[r1].put
                    /\ res.source = "cache"
                    /\ "cached" \in DOMAIN res /\ res.cached
                    /\ res.valid = orig.valid
                    /\ res.name = orig.name
                    /\ res.address = orig.address

\* a valid answer served from the cache after time has passed
C3_Witness ==
    \E r1, r2 \in VReq :
        /\ WroteCache(r1)
        /\ vcall[r1].result.valid
        /\ FellBack(r2)
        /\ vcall[r2].rec = vcall[r1].put
        /\ vcall[r2].readAt > vcall[r1].put.cachedAt.iso
        /\ vcall[r2].result.source = "cache"
        /\ vcall[r2].result.name = "ACME GMBH"

\* C4: whenever the upstream call fails and the lookup yields no fresh entry
\* (no record delivered: absent, failed read, unparseable, no bucket; or a
\* record older than the TTL), the result is valid false, name null,
\* address null, source error, without cached flag, and its error string
\* is not empty and starts with fallback:.
C4_SoftFailure ==
    \A r \in VReq :
        (FellBack(r) /\ ~ReadFresh(r)) =>
            LET res == vcall[r].result
            IN  /\ res.valid = FALSE
                /\ res.name = Null
                /\ res.address = Null
                /\ res.source = "error"
                /\ "cached" \notin DOMAIN res
                /\ "error" \in DOMAIN res
                /\ Len(res.error) = 2
                /\ res.error[1] = "fallback:"
                /\ res.error[2] # ""

\* the upstream throws an error without message while the entry is stale
C4_Witness ==
    \E r \in VReq :
        /\ FellBack(r)
        /\ vcall[r].err = ""
        /\ ~IsNull(vcall[r].rec)
        /\ ~ReadFresh(r)
        /\ vcall[r].result.source = "error"

\* C5: an entry that the read delivered with write time t0 is served at read
\* time t if and only if t - t0 < TTL; a result with source cache is never
\* built without such an entry.
C5_TtlBoundary ==
    \A r \in VReq :
        /\ (FellBack(r) /\ ~IsNull(vcall[r].rec)) =>
              (vcall[r].result.source = "cache"
                  <=> vcall[r].readAt - vcall[r].rec.cachedAt.iso < CACHE_TTL_MS)
        /\ (vcall[r].pc = "done" /\ vcall[r].result.source = "cache") =>
              (FellBack(r) /\ ReadFresh(r))

\* an entry read exactly TTL after its write time is not served
C5_Witness ==
    \E r \in VReq :
        /\ FellBack(r)
        /\ ~IsNull(vcall[r].rec)
        /\ vcall[r].readAt - vcall[r].rec.cachedAt.iso = CACHE_TTL_MS
        /\ vcall[r].result.source = "error"

\* an entry read one millisecond before the TTL elapses is served
C5_ServedAtLastInstant ==
    \E r \in VReq :
        /\ FellBack(r)
        /\ ~IsNull(vcall[r].rec)
        /\ vcall[r].readAt - vcall[r].rec.cachedAt.iso = CACHE_TTL_MS - 1
        /\ vcall[r].result.source = "cache"

\* an entry read one millisecond after the TTL elapsed is not served
C5_StaleAfterTtl ==
    \E r \in VReq :
        /\ FellBack(r)
        /\ ~IsNull(vcall[r].rec)
        /\ vcall[r].readAt - vcall[r].rec.cachedAt.iso = CACHE_TTL_MS + 1
        /\ vcall[r].result.source = "error"

---------------------------------------------------------------------------
(* Properties of meterAndCheck, checked under SpecM and SpecMSeq *)

\* r has returned from an invocation that went to the store
Metered(r) == mcall[r].pc = "done" /\ mcall[r].n > 0

Denied == [allowed |-> FALSE, reason |-> "rate_limit_exceeded", remaining |-> 0]

\* the start of the window that a bucket of the history stands for
WindowStart(b) == b[2] * WINDOW_MS

C7_LostUpdate ==
    [][\A r \in MReq :
          (mcall[r].pc = "put" /\ mcall'[r].pc = "done") =>
              /\ mcall'[r].putOutcome = "ok" =>
                    meter'[mcall[r].key].count = mcall[r].read + 1
              /\ mcall'[r].result.allowed <=> mcall[r].read + 1 <= LIMIT]_vars

\* two invocations read the same count, both wrote it plus one, both were
\* admitted; the record counts fewer requests than were made and more than L
\* requests were admitted in the window
C7_Witness ==
    \E r, q \in MReq :
        /\ r # q
        /\ Metered(r) /\ Metered(q)
        /\ mcall[r].key = mcall[q].key
        /\ mcall[r].read = mcall[q].read
        /\ mcall[r].putOutcome = "ok" /\ mcall[q].putOutcome = "ok"
        /\ mcall[r].result.allowed /\ mcall[q].result.allowed
        /\ meter[mcall[r].key].count = mcall[r].read + 1
        /\ meter[mcall[r].key].count < mcalls[mcall[r].bucket].made
        /\ mcalls[mcall[r].bucket].admitted > LIMIT

C9_FailsOpenUnreachable ==
    \A r \in MReq :
        mcall[r].pc = "done" =>
            /\ mcall[r].result \in
                  {[allowed |-> TRUE], Denied}
                  \cup {[allowed |-> TRUE, remaining |-> x] : x \in 0..LIMIT}
            /\ (Metered(r) /\ mcall[r].readOutcome = "error") => mcall[r].result.allowed

\* read and put both failed for an invocation past the quota of its window:
\* it is admitted
C9_Witness ==
    \E r \in MReq :
        /\ Metered(r)
        /\ mcall[r].n > LIMIT
        /\ mcall[r].readOutcome = "error"
        /\ mcall[r].putOutcome = "error"
        /\ mcall[r].result.allowed

\* the stored count of the window before the one r runs in is over the limit
PreviousWindowExhausted(r) ==
    LET prev == MeterKey(mcall[r].apiKey, WindowStart(mcall[r].bucket) - WINDOW_MS)
    IN  /\ mcall[r].bucket[2] > 0
        /\ prev \in DOMAIN meter
        /\ meter[prev].count > LIMIT

\* C10 as stated: when the record of window W0 holds a count over L, the
\* first invocation whose clock falls in W1 = W0 + WINDOW_MS is admitted with
\* remaining L - 1.
C10_RolloverAsStated ==
    \A r \in MReq :
        (Metered(r) /\ mcall[r].n = 1 /\ PreviousWindowExhausted(r)) =>
            mcall[r].result = [allowed |-> TRUE, remaining |-> LIMIT - 1]

\* C10, amended: the first invocation to read the counter of W1 (it finds no
\* record there, or its read fails) is admitted with remaining L - 1, also
\* when the record of W0 holds a count over L; an invocation whose clock
\* falls in a window reads and writes the record of that window only: every
\* other record is left as it is.
C10_Rollover ==
    /\ [](\A r \in MReq :
            /\ mcall[r].pc \in {"get", "put"} \/ Metered(r) =>
                  mcall[r].key = <<"meter/", WindowStart(mcall[r].bucket) \div (2 * WINDOW_MS),
                                   mcall[r].apiKey, WindowStart(mcall[r].bucket)>>
            /\ (Metered(r) /\ mcall[r].read = 0) =>
                  mcall[r].result = [allowed |-> TRUE, remaining |-> LIMIT - 1])
    /\ [][\A k \in DOMAIN meter' :
            (k \notin DOMAIN meter \/ meter'[k] # meter[k]) =>
                \E r \in MReq :
                    /\ mcall[r].pc = "put" /\ mcall'[r].pc = "done"
                    /\ k[3] = mcall[r].apiKey
                    /\ k[4] = WindowStart(mcall[r].bucket)]_vars

\* the first invocation of W1 is admitted with L - 1 remaining while the
\* record of W0 holds a count over L
C10_Witness ==
    \E r \in MReq :
        /\ Metered(r)
        /\ mcall[r].n = 1
        /\ PreviousWindowExhausted(r)
        /\ mcall[r].readOutcome = "ok"
        /\ mcall[r].result = [allowed |-> TRUE, remaining |-> LIMIT - 1]

\* r is past its upstream attempt: on the cache-write, cache-read or return
PastUpstream(r) == vcall[r].pc \in {"setCached", "getCached", "done", "threw"}

\* C13 (SpecV): an invocation calls viesCall at most once and so sends at
\* most one checkVat request; once the attempt has ended, in success or in
\* failure, the invocation sends no further request to the upstream: not
\* while it writes or reads the cache, and not on return.
C13_AtMostOneAttempt ==
    /\ [](\A r \in VReq :
            /\ vcall[r].clientCalls <= 1
            /\ vcall[r].upstreamCalls <= vcall[r].clientCalls
            /\ PastUpstream(r) => vcall[r].clientCalls = 1)
    /\ [][\A r \in VReq :
            PastUpstream(r) =>
                /\ PastUpstream(r)'
                /\ vcall'[r].clientCalls = vcall[r].clientCalls
                /\ vcall'[r].upstreamCalls = vcall[r].upstreamCalls]_vars

\* after its one attempt failed, an invocation was served from the cache
\* that the one attempt of another invocation had filled
C13_Witness ==
    \E r, q \in VReq :
        /\ vcall[r].pc = "done" /\ vcall[r].up = "throw"
        /\ vcall[r].upstreamCalls = 1
        /\ vcall[r].result.source = "cache"
        /\ WroteCache(q)
        /\ vcall[q].upstreamCalls = 1

\* the upstream attempt of r has ended in failure, or in success
UpstreamFailed(r) == vcall[r].up \in {"wsdl", "null", "throw"}
UpstreamAnswered(r) == vcall[r].up = "object"

\* r sent its cache read (the read has ended, or r waits for it)
ReadsCache(r) == vcall[r].pc = "getCached" \/ vcall[r].readOutcome # ""

\* r sent its cache put (the put has ended, or r waits for it)
WritesCache(r) == vcall[r].pc = "setCached" \/ vcall[r].putOutcome # ""

\* this step is the end of the cache put of r
EndsCachePut(r) == vcall[r].pc = "setCached" /\ vcall'[r].pc = "done"

\* reads after failure only, puts after success only, never both
CacheAside ==
    \A r \in VReq :
        /\ ReadsCache(r) => (UpstreamFailed(r) /\ ~WritesCache(r))
        /\ WritesCache(r) => (UpstreamAnswered(r) /\ ~ReadsCache(r))
        /\ vcall[r].pc = "done" => (ReadsCache(r) \/ WritesCache(r))

\* the bucket changes under cache/ only by the put of an invocation, which
\* stores that invocation's record under its key; nothing is ever deleted
OnlyPutsChangeCache ==
    /\ DOMAIN cache \subseteq DOMAIN cache'
    /\ cache' # cache =>
          \E r \in VReq :
              /\ EndsCachePut(r)
              /\ cache' = (VKey(r) :> vcall[r].put) @@ cache
              /\ vcall[r].put.payload = vcall'[r].result
              /\ vcall[r].put.cachedAt.iso \in vcall[r].t .. now

\* C18 as stated: cache-aside discipline, and every invocation whose
\* upstream call succeeded overwrites the entry with its record.
C18_CacheAsideAsStated ==
    /\ []CacheAside
    /\ [][/\ OnlyPutsChangeCache
          /\ \A r \in VReq :
                EndsCachePut(r) =>
                    (VKey(r) \in DOMAIN cache' /\ cache'[VKey(r)] = vcall[r].put)]_vars

\* C18, amended: cache-aside discipline, and every invocation whose upstream
\* call succeeded sends one put of a record made of its payload and of the
\* time the put is sent; the put overwrites the entry when it succeeds and
\* leaves the bucket as it is when it fails or when no bucket is configured.
C18_CacheAside ==
    /\ []CacheAside
    /\ [][/\ OnlyPutsChangeCache
          /\ \A r \in VReq :
                EndsCachePut(r) =>
                    IF vcall'[r].putOutcome = "ok"
                    THEN VKey(r) \in DOMAIN cache' /\ cache'[VKey(r)] = vcall[r].put
                    ELSE cache' = cache]_vars

\* the entry that one successful invocation stored was overwritten by a later
\* one, with a later write time
C18_Witness ==
    \E r, q \in VReq :
        /\ WroteCache(r) /\ WroteCache(q)
        /\ VKey(r) = VKey(q)
        /\ vcall[q].put.cachedAt.iso < vcall[r].put.cachedAt.iso
        /\ cache[VKey(r)] = vcall[r].put

ResultFields ==
    {"countryCode", "vatNumber", "valid", "name", "address", "requestDate",
     "lookupId", "source", "cacheTtlMs"}

\* C14: every result that checkVAT returns holds all of countryCode,
\* vatNumber, valid, name, address, requestDate, lookupId, source and
\* cacheTtlMs, with name and address a string or null; the cached flag comes
\* with source cache only and the error field with source error only;
\* whatever payload the cache entry holds.
C14_AllFieldsPresent ==
    \A r \in VReq :
        vcall[r].pc = "done" =>
            LET res == vcall[r].result
            IN  /\ ResultFields \subseteq DOMAIN res
                /\ res.name # Undef /\ res.address # Undef
                /\ "cached" \in DOMAIN res => res.source = "cache"
                /\ "error" \in DOMAIN res => res.source = "error"

\* a result served from an entry that validateVAT stored: it has neither
\* name nor address
C14_Witness ==
    \E r \in VReq :
        /\ vcall[r].pc = "done"
        /\ vcall[r].result.source = "cache"
        /\ "name" \notin DOMAIN vcall[r].result
        /\ "address" \notin DOMAIN vcall[r].result

---------------------------------------------------------------------------
(* More properties of meterAndCheck *)

\* C19 (SpecM): the stored count of every (API key, window) record never
\* decreases: each write stores a count greater than or equal to the count
\* stored before it, whatever the interleaving and the store failures.
C19_MonotonicCount ==
    [][\A k \in DOMAIN meter :
          k \in DOMAIN meter' /\ meter'[k].count >= meter[k].count]_vars

\* an invocation stored a count, and the record now holds a smaller one
C19_Witness ==
    \E r \in MReq :
        /\ Metered(r)
        /\ mcall[r].putOutcome = "ok"
        /\ meter[mcall[r].key].count < mcall[r].doc.count

\* the count stored for a bucket of the history (0 when there is no record)
StoredCount(b) ==
    LET k == MeterKey(b[1], WindowStart(b))
    IN  IF k \in DOMAIN meter THEN meter[k].count ELSE 0

\* the invocations of a bucket that have not yet stored their count
Pending(b) == {r \in MReq : mcall[r].pc \in {"get", "put"} /\ mcall[r].bucket = b}

\* C20 (SpecMSeq): with a working store and invocations that do not overlap
\* for one key, the put of the n-th invocation of a key in a window stores
\* the count n, whether that invocation is admitted or denied; so the stored
\* count of a bucket equals the number of invocations made in it that have
\* stored theirs, and never falls short of the requests. (That it does fall
\* short when invocations overlap is C7.)
C20_CountEqualsRequests ==
    /\ [](\A b \in DOMAIN mcalls :
            /\ Cardinality(Pending(b)) <= 1
            /\ StoredCount(b) = mcalls[b].made - Cardinality(Pending(b)))
    /\ [][\A r \in MReq :
            (mcall[r].pc = "put" /\ mcall'[r].pc = "done") =>
                /\ meter'[mcall[r].key].count = mcall[r].n
                /\ mcall'[r].result.allowed <=> mcall[r].n <= LIMIT]_vars

\* four invocations were made in one window: L were admitted, two were
\* denied, and the record counts all four
C20_Witness ==
    \E b \in DOMAIN mcalls :
        /\ Pending(b) = {}
        /\ mcalls[b].made = LIMIT + 2
        /\ mcalls[b].admitted = LIMIT
        /\ StoredCount(b) = LIMIT + 2

---------------------------------------------------------------------------
(* Liveness of checkVAT, checked under SpecVLive *)

\* C12: every checkVAT invocation eventually returns a result, also when the
\* upstream does not answer.
C12_EventuallyReturns ==
    \A r \in VReq : (vcall[r].pc # "idle") ~> (vcall[r].pc = "done")

\* an invocation waits for the answer to checkVatAsync
C12_Witness == \E r \in VReq : vcall[r].pc = "vies" /\ vcall[r].upstreamCalls = 1

\* what the timeout of wsdl_options does bound: an invocation that is
\* building its SOAP client gets on, to the call or to the fallback
C12_ClientPhaseEnds ==
    \A r \in VReq : (vcall[r].pc = "client") ~> (vcall[r].pc \in {"vies", "done"})

---------------------------------------------------------------------------
(* Properties of the lookup handler, checked under SpecH *)

Pipeline == <<"entitlement", "meterAndCheck", "checkVAT">>

Responded(h) == hreq[h].pc = "responded"

\* C11 (SpecH): every request passes entitlement, then meterAndCheck, then
\* checkVAT, in that order. A request answered 400, 401 or 403 (missing
\* header or body field, or entitlement) never called meterAndCheck; a
\* request answered 429 never called checkVAT. Only the meterAndCheck
\* invocation of a request that passed entitlement changes a meter record,
\* and only the checkVAT invocation of a request that the meter admitted
\* calls the upstream, writes the validation audit record or touches the
\* cache.
C11_PipelineOrder ==
    /\ [](\A h \in HReq :
            /\ hreq[h].trace = SubSeq(Pipeline, 1, Len(hreq[h].trace))
            /\ mcall[h].pc # "idle" => (hreq[h].pc = "meter" /\ Len(hreq[h].trace) = 2)
            /\ vcall[h].pc # "idle" =>
                  /\ hreq[h].pc = "validate"
                  /\ Len(hreq[h].trace) = 3
                  /\ hreq[h].meterRes.allowed
            /\ (Responded(h) /\ hreq[h].status \in {400, 401, 403}) =>
                  (Len(hreq[h].trace) <= 1 /\ IsNull(hreq[h].meterRes))
            /\ (Responded(h) /\ hreq[h].status = 429) =>
                  (Len(hreq[h].trace) = 2 /\ ~hreq[h].meterRes.allowed))
    /\ [][/\ (meter' # meter \/ mlogs' # mlogs \/ mcalls' # mcalls) =>
                \E h \in HReq : mcall'[h] # mcall[h] /\ hreq[h].pc = "meter"
          /\ (cache' # cache \/ vlogs' # vlogs) =>
                \E h \in HReq : vcall'[h] # vcall[h] /\ hreq[h].pc = "validate"
          /\ \A h \in HReq :
                (vcall'[h].clientCalls + vcall'[h].upstreamCalls
                    > vcall[h].clientCalls + vcall[h].upstreamCalls) =>
                    (hreq[h].pc = "validate" /\ hreq[h].meterRes.allowed)]_vars

\* a request was answered 429 after the entitlement check and the meter,
\* while the request in the other slot was let through to checkVAT
C11_Witness ==
    \E h, g \in HReq :
        /\ Responded(h)
        /\ hreq[h].status = 429
        /\ hreq[h].trace = <<"entitlement", "meterAndCheck">>
        /\ vcall[h].pc = "idle"
        /\ hreq[g].trace = Pipeline

\* a and b differ at most in case and in whitespace
SameUpToCaseAndSpace(a, b) == StripSpace(toUpperCase(a)) = StripSpace(toUpperCase(b))

\* C15 (SpecH): the cache key of a checkVAT invocation depends only on the
\* normalized pair. Invocations whose arguments differ only in case or
\* surrounding whitespace of the country code, or in whitespace of the VAT
\* number, use the same key, so the bucket holds one entry for the pair;
\* the normalized pair is a fixed point of the normalization, and the key
\* built from it (cacheKey normalizes once more) is the plain concatenation.
C15_IdempotentNormalization ==
    /\ \A h, g \in HReq :
          ( /\ vcall[h].pc # "idle" /\ vcall[g].pc # "idle"
            /\ SameUpToCaseAndSpace(hreq[h].countryCode, hreq[g].countryCode)
            /\ SameUpToCaseAndSpace(hreq[h].vatNumber, hreq[g].vatNumber) )
          => VKey(h) = VKey(g)
    /\ \A h \in HReq :
          vcall[h].pc # "idle" =>
              LET cc == vcall[h].cc
                  vn == vcall[h].vn
              IN  /\ toUpperCase(cc) = cc /\ StripSpace(vn) = vn
                  /\ VKey(h) = <<"cache/">> \o cc \o <<"_">> \o vn \o <<".json">>
                  /\ cacheKey(toUpperCase(cc), StripSpace(vn)) = VKey(h)
    /\ \A k \in DOMAIN cache : k = <<"cache/", "D", "E", "_", "1", "2", ".json">>

\* of the only two requests made, the one that sent " de " and "1 2" was
\* answered from the upstream, and the one that sent "DE" and "12" is served
\* the entry the former stored
C15_Witness ==
    \E h, g \in HReq :
        /\ Responded(h)
        /\ hreq[h].countryCode = <<" ", "d", "e", " ">>
        /\ hreq[h].vatNumber = <<"1", " ", "2">>
        /\ hreq[h].status = 200
        /\ hreq[h].body.source = "vies"
        /\ hreq[g].countryCode = <<"D", "E">>
        /\ hreq[g].vatNumber = <<"1", "2">>
        /\ vcall[g].pc = "done"
        /\ vcall[g].result.source = "cache"
        /\ vcall[g].result.name = "ACME GMBH"
        /\ ~IsNull(vcall[g].rec)
        /\ vcall[g].rec.payload.lookupId = hreq[h].body.lookupId
        /\ TotalCalls = 2

\* h was answered with what its checkVAT invocation returned
AnsweredByCheckVAT(h) ==
    Responded(h) /\ hreq[h].trace = Pipeline /\ "source" \in DOMAIN hreq[h].body

\* C16: whenever checkVAT returns a result with source error, or any result
\* with an error field, the lookup handler answers with status 200 and that
\* result as the body, never with a 5xx status. (It holds for vatHandler,
\* under SpecH; it is checked here for the handler of src/server.mjs, SpecL.)
C16_SoftFailureIs200 ==
    \A h \in HReq :
        ( /\ AnsweredByCheckVAT(h)
          /\ (hreq[h].body.source = "error" \/ "error" \in DOMAIN hreq[h].body) )
        => hreq[h].status = 200

\* the soft failure of checkVAT sent with status 502
C16_Witness ==
    \E h \in HReq :
        /\ AnsweredByCheckVAT(h)
        /\ server = "lookup"
        /\ hreq[h].body.source = "error"
        /\ hreq[h].body.valid = FALSE
        /\ hreq[h].status = 502

\* C17 (SpecH): once meterAndCheck has returned to a request, the response
\* carries X-Rate-Remaining with exactly the decimal text of the remaining
\* value it returned, on admitted requests and on requests answered 429
\* (where it is "0"); a request that never reached the meter carries no such
\* header, and a result without remaining (remaining undefined) sets none.
C17_RateRemainingHeader ==
    /\ \A h \in HReq :
          LET m == hreq[h].meterRes
              hdr == hreq[h].headers
          IN  /\ IsNull(m) => hdr = <<>>
              /\ (~IsNull(m) /\ "remaining" \in DOMAIN m) =>
                    /\ DOMAIN hdr = {"X-Rate-Remaining"}
                    /\ hdr["X-Rate-Remaining"] = String(m.remaining)
                    /\ m.remaining = 0 => hdr["X-Rate-Remaining"] = <<"0">>
                    /\ m.remaining = 1 => hdr["X-Rate-Remaining"] = <<"1">>
              /\ (~IsNull(m) /\ "remaining" \notin DOMAIN m) => hdr = <<>>
              /\ (Responded(h) /\ hreq[h].status = 429) =>
                    (DOMAIN hdr = {"X-Rate-Remaining"} /\ hdr["X-Rate-Remaining"] = <<"0">>)
    /\ RateHeaders([allowed |-> TRUE]) = <<>>

\* one request was answered 200 with X-Rate-Remaining: 1, a later one 429
\* with X-Rate-Remaining: 0
C17_Witness ==
    \E h, g \in HReq :
        /\ Responded(h) /\ hreq[h].status = 200
        /\ hreq[h].headers = [name \in {"X-Rate-Remaining"} |-> <<"1">>]
        /\ Responded(g) /\ hreq[g].status = 429
        /\ hreq[g].headers = [name \in {"X-Rate-Remaining"} |-> <<"0">>]

---------------------------------------------------------------------------
\* a result without the fields derived from the clock
Untimed(result) == [k \in DOMAIN result \ {"requestDate", "lookupId"} |-> result[k]]

\* r and q were given the same pair, the same upstream outcome and the same
\* cache content at the same instant
SameInputs(r, q) ==
    /\ vcall[r].cc = vcall[q].cc /\ vcall[r].vn = vcall[q].vn
    /\ vcall[r].up = vcall[q].up /\ vcall[r].res = vcall[q].res
    /\ vcall[r].err = vcall[q].err
    /\ vcall[r].rec = vcall[q].rec /\ vcall[r].readAt = vcall[q].readAt

\* r's audit put left its record in the bucket
AuditStored(r) == AuditKey(vcall[r].t, vcall[r].vn) \in DOMAIN vlogs

\* C21: best-effort side effects do not influence the answer: two invocations
\* that were given the same pair, the same upstream outcome and the same cache
\* content return the same result, apart from the fields derived from the
\* clock, whatever became of their audit puts and of their cache puts.
C21_SideEffectsDoNotMatter ==
    \A r, q \in VReq :
        (vcall[r].pc = "done" /\ vcall[q].pc = "done" /\ SameInputs(r, q))
            => Untimed(vcall[r].result) = Untimed(vcall[q].result)

\* two invocations answered alike by the upstream: one stored its audit record
\* and its cache entry, the other lost both puts
C21_Witness ==
    \E r, q \in VReq :
        /\ vcall[r].pc = "done" /\ vcall[q].pc = "done" /\ SameInputs(r, q)
        /\ vcall[r].up = "object"
        /\ vcall[r].t # vcall[q].t
        /\ AuditStored(r) /\ ~AuditStored(q)
        /\ vcall[r].putOutcome = "ok" /\ vcall[q].putOutcome = "error"

---------------------------------------------------------------------------
\* the upstream timestamp of r's answer parses
UpstreamDateParses(r) ==
    vcall[r].res.requestDate.kind \in {"date", "string"} /\ vcall[r].res.requestDate.valid

\* r returned the answer of the upstream
ReturnedVies(r) == vcall[r].pc = "done" /\ vcall[r].up = "object"

\* C22: the requestDate of every result is a well-formed instant; on the vies
\* path it is the upstream timestamp when that parses and the time at which
\* the answer was handled when the upstream timestamp is missing, of another
\* type or unparseable; no cache record that checkVAT builds or that the
\* bucket holds carries a malformed timestamp.
C22_WellFormedRequestDate ==
    /\ \A r \in VReq :
          /\ vcall[r].pc = "done" => IsDateString(vcall[r].result.requestDate)
          /\ ReturnedVies(r) =>
                vcall[r].result.requestDate =
                    IF UpstreamDateParses(r)
                    THEN toISOString(vcall[r].res.requestDate.ms)
                    ELSE vcall[r].put.cachedAt
          /\ ~IsNull(vcall[r].put) => IsDateString(vcall[r].put.payload.requestDate)
    /\ \A k \in DOMAIN cache : IsDateString(cache[k].payload.requestDate)

\* one answer whose timestamp parses and is kept, one answer whose timestamp
\* does not parse and is replaced by the later current time, both stored
C22_Witness ==
    \E r, q \in VReq :
        /\ ReturnedVies(r) /\ UpstreamDateParses(r)
        /\ vcall[r].put.cachedAt.iso > vcall[r].res.requestDate.ms
        /\ vcall[r].result.requestDate = toISOString(vcall[r].res.requestDate.ms)
        /\ ReturnedVies(q) /\ vcall[q].res.requestDate.kind = "date"
        /\ ~UpstreamDateParses(q)
        /\ vcall[q].result.requestDate.iso > 0
        /\ vcall[q].putOutcome = "ok" /\ VKey(q) \in DOMAIN cache

---------------------------------------------------------------------------
(* Properties of vatHandler over the entitlement records, checked under SpecK *)

\* h was answered with this status and error code
Refused(h, status, error) ==
    /\ hreq[h].status = status
    /\ hreq[h].body = [error |-> error]

\* h was answered with a rejection
Rejected(h) == Responded(h) /\ hreq[h].status \in {400, 401, 403, 429}

\* C23: each rejection of a lookup request uses the status and error code
\* the quickstart page lists: 401 missing_api_key, 401
\* missing_customer_email, 401 invalid_key for an unknown key, 403
\* key_revoked, 403 plan_not_allowed, 403 access_denied for any other
\* entitlement failure, 429 rate_limit_exceeded; the api key is checked
\* first, then the email, then the body fields.
C23_RejectionsAsDocumented ==
    \A h \in HReq :
        Rejected(h) =>
            /\ hreq[h].apiKey = "" => Refused(h, 401, "missing_api_key")
            /\ (hreq[h].apiKey # "" /\ hreq[h].email = "")
                    => Refused(h, 401, "missing_customer_email")
            /\ hreq[h].status # 400
                    => <<hreq[h].status, hreq[h].body.error>> \in DocumentedErrors
            /\ hreq[h].code = "invalid_key" => Refused(h, 401, "invalid_key")
            /\ hreq[h].code = "key_revoked" => Refused(h, 403, "key_revoked")
            /\ hreq[h].code = "price_not_allowed" => Refused(h, 403, "plan_not_allowed")
            /\ hreq[h].code \in {"no_active_subscription", "no_customer"}
                    => Refused(h, 403, "access_denied")
            /\ hreq[h].status = 429 => Refused(h, 429, "rate_limit_exceeded")

\* a lookup with a key that has no record was refused
C23_Witness ==
    \E h \in HReq :
        /\ Rejected(h) /\ hreq[h].code = "invalid_key"
        /\ hreq[h].apiKey \notin DOMAIN bykey
        /\ hreq[h].status = 401

\* every part of C23 but the code of the unknown key
C23_OtherRejections ==
    \A h \in HReq :
        (Rejected(h) /\ hreq[h].code # "invalid_key") =>
            /\ hreq[h].apiKey = "" => Refused(h, 401, "missing_api_key")
            /\ (hreq[h].apiKey # "" /\ hreq[h].email = "")
                    => Refused(h, 401, "missing_customer_email")
            /\ hreq[h].status # 400
                    => <<hreq[h].status, hreq[h].body.error>> \in DocumentedErrors
            /\ hreq[h].code = "key_revoked" => Refused(h, 403, "key_revoked")
            /\ hreq[h].code = "price_not_allowed" => Refused(h, 403, "plan_not_allowed")
            /\ hreq[h].code \in {"no_active_subscription", "no_customer"}
                    => Refused(h, 403, "access_denied")
            /\ hreq[h].status = 429 => Refused(h, 429, "rate_limit_exceeded")

\* C24: revoke key on cancellation: once the webhook has answered 200 to a
\* subscription updated/deleted event with an inactive status for a customer
\* that has a key, every lookup in enforce mode whose entitlement check is made
\* with that key before an activating event for the customer is taken up is
\* refused with 403 key_revoked, and neither meterAndCheck nor checkVAT is
\* entered for it.
C24_RevokedKeyRefused ==
    \A h \in HReq :
        (ENFORCE_STRIPE /\ hreq[h].revoked) =>
            /\ Responded(h)
            /\ Refused(h, 403, "key_revoked")
            /\ hreq[h].trace = <<"entitlement">>

\* after a deactivation answered 200 for a customer that has a key, a lookup
\* with that key has been let through to checkVAT and answered 200
C24_Witness ==
    \E h \in HReq :
        /\ ENFORCE_STRIPE /\ hreq[h].revoked
        /\ Responded(h) /\ hreq[h].status = 200
        /\ hreq[h].trace = Pipeline
        /\ handled["cus_1"] = [op |-> "deactivate", hadKey |-> TRUE]

\* over a working bucket a revoked key is refused, and some lookup is
C24_RefusedOverWorkingStore ==
    \E h \in HReq :
        /\ ENFORCE_STRIPE /\ hreq[h].revoked
        /\ Responded(h) /\ Refused(h, 403, "key_revoked")

---------------------------------------------------------------------------
(* Properties of the listener of src/webhook.js *)

\* C25: webhook idempotency: for any event id, across any number of
\* deliveries of that event, redelivered after any response or overlapping
\* in time, the download email is sent at most once.
C25_AtMostOneEmail == \A id \in EventIds : mails[id] <= 1

\* the email of one event went out twice over a working bucket, the second
\* delivery having started before the first was marked
C25_Witness ==
    \E id \in EventIds :
        /\ mails[id] = 2
        /\ S3_BUCKET
        /\ id \in DOMAIN marks
        /\ \A d \in DReq : lhook[d].pc = "done" /\ lhook[d].id = id /\ lhook[d].status = 200

---------------------------------------------------------------------------
(* More properties of meterAndCheck, checked under SpecMSeq and SpecM *)

\* b2 is the window that follows b, for the same API key
Adjacent(b, b2) == b[1] = b2[1] /\ b2[2] = b[2] + 1

\* C26: fixed-window bound: when the calls for a key do not overlap and the
\* store works, at most LIMIT requests of a key are admitted among those that
\* took their clock in one window, and at most 2 * LIMIT in two adjacent
\* windows; a call is admitted exactly when its rank among the calls of its
\* own aligned window is at most LIMIT, whatever happened in the window
\* before.
C26_FixedWindowBound ==
    /\ \A b \in DOMAIN mcalls : mcalls[b].admitted <= LIMIT
    /\ \A b, b2 \in DOMAIN mcalls :
            Adjacent(b, b2) => mcalls[b].admitted + mcalls[b2].admitted <= 2 * LIMIT
    /\ \A r \in MReq :
            Metered(r) =>
                /\ mcall[r].window = (now \div WINDOW_MS) * WINDOW_MS
                        \/ mcall[r].window < (now \div WINDOW_MS) * WINDOW_MS
                /\ mcall[r].window % WINDOW_MS = 0
                /\ mcall[r].result.allowed = (mcall[r].n <= LIMIT)

\* a burst across the boundary: the first window was used up and one more
\* request was denied there, and LIMIT requests were admitted in the next
C26_Witness ==
    \E b, b2 \in DOMAIN mcalls :
        /\ Adjacent(b, b2)
        /\ mcalls[b].admitted = LIMIT /\ mcalls[b].made > LIMIT
        /\ mcalls[b2].admitted = LIMIT
        /\ \A r \in MReq : mcall[r].pc \in {"idle", "done"}

---------------------------------------------------------------------------
(* The order of the steps of one request, checked under SpecO *)

\* r has taken its decision
Decided(r) == mcall[r].pc = "done"

\* where each invocation stands, what it has done so far
C27_Positions ==
    /\ \A r \in VReq :
          vcall[r].pc \in {"idle", "audit"} =>
                vcall[r].clientCalls = 0 /\ vcall[r].upstreamCalls = 0
    /\ \A r \in MReq :
          /\ mcall[r].pc = "get" => IsNull(mcall[r].doc) /\ mcall[r].putOutcome = ""
          /\ mcall[r].pc = "put" =>
                /\ mcall[r].readOutcome # ""
                /\ mcall[r].doc.count = mcall[r].read + 1
                /\ mcall[r].putOutcome = ""
          /\ (Decided(r) /\ mcall[r].n > 0) =>
                /\ mcall[r].readOutcome # "" /\ mcall[r].putOutcome # ""
                /\ mcall[r].doc.count = mcall[r].read + 1
                /\ mcall[r].result.allowed = (mcall[r].doc.count <= LIMIT)

\* which step does what
C27_Steps ==
    /\ \A r \in VReq :
          /\ vcall'[r].clientCalls # vcall[r].clientCalls =>
                vcall[r].pc = "audit" /\ vcall'[r].pc = "client"
          /\ (vcall[r].pc = "audit" /\ vcall'[r].pc # "audit") =>
                vcall'[r].pc = "client" /\ vcall'[r].clientCalls = 1
    /\ vlogs' # vlogs => \E r \in VReq : vcall[r].pc = "audit" /\ vcall'[r].pc = "client"
    /\ meter' # meter =>
            \E r \in MReq :
                /\ mcall[r].pc = "put" /\ Decided(r)'
                /\ meter' = (mcall[r].key :> mcall[r].doc) @@ meter
    /\ \A r \in MReq :
          (~Decided(r) /\ Decided(r)' /\ mcall'[r].n > 0) => mcall[r].pc = "put"

---------------------------------------------------------------------------
\* C28: meterAndCheck writes its audit record exactly for admitted requests.
\* A call that went through the counter (bucket configured, API key present)
\* has sent three store requests when it returns allowed = true (read, counter
\* put, audit put) and two when it returns allowed = false (read, counter
\* put); a denied call leaves the audit records as they were, and its counter
\* put carries the count it read plus one, above LIMIT, which is what the
\* store holds once that put succeeds.
C28_Positions ==
    \A r \in MReq :
        LET c == mcall[r] IN
        /\ Metered(r) => c.ops = (IF c.result.allowed THEN 3 ELSE 2)
        /\ (c.pc = "done" /\ FailsOpen(c.apiKey)) => c.ops = 0

C28_Steps ==
    \A r \in MReq :
        (mcall[r].pc = "put" /\ mcall'[r].pc = "done") =>
            LET c == mcall'[r]
                auditKey == MeterAuditKey(DayOf(c.window), now, c.vatNumber)
            IN  IF c.result.allowed
                THEN /\ \A k \in DOMAIN mlogs' :
                            k # auditKey => (k \in DOMAIN mlogs /\ mlogs'[k] = mlogs[k])
                     /\ auditKey \in DOMAIN mlogs' =>
                            (mlogs'[auditKey].apiKey = c.apiKey \/ auditKey \in DOMAIN mlogs)
                ELSE /\ mlogs' = mlogs
                     /\ c.doc.count = c.read + 1
                     /\ c.doc.count > LIMIT
                     /\ c.putOutcome = "ok" =>
                            (c.key \in DOMAIN meter' /\ meter'[c.key].count = c.doc.count)

---------------------------------------------------------------------------
\* C29: audit records are append-only, one per request. No step replaces an
\* audit record the store holds: every record under logs/, written by
\* checkVAT or by meterAndCheck, is still there, unchanged, after the step.
Kept(before, after) ==
    \A k \in DOMAIN before : k \in DOMAIN after /\ after[k] = before[k]

C29_AuditAppendOnly == [][Kept(vlogs, vlogs') /\ Kept(mlogs, mlogs')]_vars

\* two checkVAT invocations for one VAT number in two countries took the same
\* timestamp; both are past their audit put, and the one key they share holds
\* the record of one of them
C29_Witness ==
    \E r, q \in VReq :
        /\ r # q
        /\ vcall[r].pc \notin {"idle", "audit"}
        /\ vcall[q].pc \notin {"idle", "audit"}
        /\ vcall[r].t = vcall[q].t
        /\ vcall[r].vn = vcall[q].vn
        /\ vcall[r].cc # vcall[q].cc
        /\ AuditKey(vcall[r].t, vcall[r].vn) \in DOMAIN vlogs
        /\ vlogs[AuditKey(vcall[r].t, vcall[r].vn)].countryCode = vcall[q].cc

\* a record is replaced only by a request with the timestamp and the VAT
\* number it was written under
C29_ReplacedBySameInstant ==
    [][\A k \in DOMAIN vlogs :
            (k \in DOMAIN vlogs' /\ vlogs'[k] # vlogs[k]) =>
                /\ vlogs'[k].t = vlogs[k].t
                /\ vlogs'[k].vatNumber = vlogs[k].vatNumber]_vars

---------------------------------------------------------------------------
\* C30: a key is created on checkout and kept stable. A customer's records
\* under keys/by-key/ all sit under the one key of keys/<customer>.json; no
\* step changes the key of a customer record that carries one, nor the key or
\* the customer of a by-key record; and a customer record that appears
\* carries a key no by-key record is stored under yet.
C30_OneKey ==
    \A c \in DOMAIN keys : \A k \in DOMAIN bykey :
        bykey[k].customerId = c => k = keys[c].key

C30_Steps ==
    /\ \A c \in DOMAIN keys : c \in DOMAIN keys' /\ keys'[c].key = keys[c].key
    /\ \A k \in DOMAIN bykey :
            /\ k \in DOMAIN bykey'
            /\ bykey'[k].key = k
            /\ bykey'[k].customerId = bykey[k].customerId
    /\ \A c \in Customers :
            (c \notin DOMAIN keys /\ c \in DOMAIN keys') => keys'[c].key \notin DOMAIN bykey

C30_KeyCreatedAndStable == []C30_OneKey /\ [][C30_Steps]_vars

\* the customer's first key is stored under keys/by-key/, and the customer
\* record now carries a second one
C30_Witness ==
    \E c \in DOMAIN keys :
        /\ NewKey(0) \in DOMAIN bykey
        /\ bykey[NewKey(0)].customerId = c
        /\ keys[c].key = NewKey(1)

\* a checkout made the customer's key, later deliveries (a deactivation and
\* an upsert after it among them) were handled, and the key is the first one
C30_StableOverWorkingReads ==
    \E c \in DOMAIN keys :
        /\ keys[c].key = NewKey(0)
        /\ NewKey(0) \in DOMAIN bykey
        /\ ~IsNull(keys[c].graceUntil)
        /\ keys[c].active
        /\ handled[c] = [op |-> "upsert", hadKey |-> TRUE]

---------------------------------------------------------------------------
\* C31: a delivery whose signature does not verify is answered 400 and
\* changes nothing, and an event of a type the webhook does not handle is
\* answered 200 and leaves the entitlement records unchanged. The step that
\* takes in an unsigned delivery ends it with status 400, in the webhook and
\* in the listener, and leaves entitlement records, key count, idempotency
\* markers and emails as they were; the step that takes in a signed event of
\* another type ends it with status 200 and leaves the entitlement records
\* as they were.
EntitlementTypes ==
    {"checkout.session.completed", "invoice.payment_succeeded",
     "customer.subscription.updated", "customer.subscription.deleted"}

NothingChanged == UNCHANGED <<keys, bykey, issued, handled, marks, mails>>

C31_Steps ==
    /\ \A w \in WReq, ev \in WEvents :
            WEvent(w, ev) =>
                /\ ~ev.signed => (whook'[w] = WRespond(400) /\ NothingChanged)
                /\ (ev.signed /\ ev.type \notin EntitlementTypes) =>
                        (whook'[w] = WRespond(200) /\ UNCHANGED <<keys, bykey, issued, handled>>)
    /\ \A d \in DReq, id \in EventIds, type \in LEventTypes :
            LDeliver(d, id, type, FALSE) =>
                /\ lhook'[d].pc = "done"
                /\ lhook'[d].status = 400
                /\ NothingChanged

\* a delivery that was answered took no further step: whatever changes a
\* record, a marker or the emails is the step of a delivery under way
C31_OnlyDeliveriesUnderWay ==
    /\ (keys' # keys \/ bykey' # bykey \/ issued' # issued) =>
            \E w \in WReq : whook[w].pc \in {"read", "putCust", "putByKey"}
    /\ (marks' # marks \/ mails' # mails) =>
            \E d \in DReq : lhook[d].pc \in {"send", "mark"}

C31_RejectedChangesNothing == [][C31_Steps /\ C31_OnlyDeliveriesUnderWay]_vars

\* both handlers have answered 400 while the bucket holds a customer record
\* and a marker
C31_Witness ==
    /\ \E w \in WReq : whook[w] = WRespond(400)
    /\ \E d \in DReq : lhook[d].pc = "done" /\ lhook[d].status = 400
    /\ keys # <<>>
    /\ bykey # <<>>
    /\ marks # <<>>

---------------------------------------------------------------------------
\* C32: in meterAndCheck a failed counter read is indistinguishable from an
\* absent record. A call whose read failed carries count = 1 to its put and
\* returns allowed with remaining = LIMIT - 1; when its put succeeds the
\* store holds count = 1 under the key, whatever it held before.
ReadFailed(r) == mcall[r].n > 0 /\ mcall[r].readOutcome = "error"

C32_Positions ==
    \A r \in MReq :
        /\ (ReadFailed(r) /\ mcall[r].pc \in {"put", "done"}) =>
                (mcall[r].read = 0 /\ mcall[r].doc.count = 1)
        /\ (ReadFailed(r) /\ mcall[r].pc = "done") =>
                mcall[r].result = [allowed |-> TRUE, remaining |-> LIMIT - 1]

C32_Steps ==
    \A r \in MReq :
        (mcall[r].pc = "put" /\ mcall'[r].pc = "done" /\ ReadFailed(r)
            /\ mcall'[r].putOutcome = "ok") =>
                (mcall[r].key \in DOMAIN meter' /\ meter'[mcall[r].key].count = 1)

C32_FailedReadCountsAsAbsent == []C32_Positions /\ [][C32_Steps]_vars

\* an earlier call of the window was denied and stored a count above LIMIT;
\* a later call, whose read failed, was admitted and the store holds count 1
C32_Witness ==
    \E r, q \in MReq :
        /\ r # q
        /\ mcall[q].pc = "done" /\ mcall[r].pc = "done"
        /\ mcall[q].key = mcall[r].key
        /\ mcall[q].n < mcall[r].n
        /\ ~mcall[q].result.allowed
        /\ mcall[q].putOutcome = "ok"
        /\ ReadFailed(r)
        /\ mcall[r].putOutcome = "ok"
        /\ mcall[r].result.allowed
        /\ meter[mcall[r].key].count = 1

---------------------------------------------------------------------------
\* Every entry of the cache holds a payload with source = vies, without a
\* cached flag and without an error field, and is the record that an
\* invocation whose upstream call succeeded has put with success.
WrittenByUpstreamSuccess ==
    \A k \in DOMAIN cache :
        /\ cache[k].payload.source = "vies"
        /\ "cached" \notin DOMAIN cache[k].payload
        /\ "error" \notin DOMAIN cache[k].payload
        /\ \E r \in VReq :
                /\ WroteCache(r)
                /\ VKey(r) = k
                /\ cache[k] = vcall[r].put

\* the step in which the cache read of an invocation ends, whatever it
\* returns, leaves the cache as it is
ServingLeavesCache ==
    \A r \in VReq : vcall[r].pc = "getCached" /\ vcall'[r].pc # "getCached" => cache' = cache

\* the write time of the entry of every invocation that returned an upstream
\* answer is not older than that answer
MeasuredFromLastSuccess ==
    \A r \in VReq :
        (vcall[r].pc = "done" /\ vcall[r].result.source = "vies") =>
            /\ VKey(r) \in DOMAIN cache
            /\ getTime(cache[VKey(r)].cachedAt) >= getTime(vcall[r].put.cachedAt)

\* C33 as stated: the above, and the freshness of an entry is always measured
\* from the last successful upstream call for its pair.
C33_WrittenPayloadsAsStated ==
    /\ []WrittenByUpstreamSuccess
    /\ []MeasuredFromLastSuccess
    /\ [][ServingLeavesCache]_vars

\* C33: every payload that checkVAT writes to the cache has source = vies and
\* carries neither a cached flag nor an error field; soft-failure results and
\* cache-served results are never written back, so serving an entry does not
\* refresh its write time: the entry is always the record put by an
\* invocation whose own upstream call succeeded, with the write time of that
\* invocation.
C33_WrittenPayloads == []WrittenByUpstreamSuccess /\ [][ServingLeavesCache]_vars

\* an invocation was served from the cache at a later instant than the one
\* the entry was written at, and the entry still carries its write time
C33_Witness ==
    \E r \in VReq :
        /\ vcall[r].pc = "done"
        /\ vcall[r].result.source = "cache"
        /\ VKey(r) \in DOMAIN cache
        /\ cache[VKey(r)] = vcall[r].rec
        /\ getTime(cache[VKey(r)].cachedAt) < vcall[r].readAt

---------------------------------------------------------------------------
\* C34: one key per customer under concurrency. Whatever the interleaving of
\* the webhook's deliveries for a customer, at most one record under
\* keys/by-key/ names the customer, and it is stored under the key that
\* keys/<customer>.json carries.
KeysNaming(c) == { k \in DOMAIN bykey : bykey[k].customerId = c }

C34_OneKeyPerCustomer ==
    \A c \in Customers :
        /\ Cardinality(KeysNaming(c)) <= 1
        /\ c \in DOMAIN keys => KeysNaming(c) \subseteq { keys[c].key }

\* two deliveries for a new customer have both been answered 200 and two
\* by-key records name the customer
C34_Witness ==
    \E c \in Customers :
        /\ Cardinality(KeysNaming(c)) = 2
        /\ \A w \in WReq : whook[w] = WRespond(200)
        /\ handled[c] = [op |-> "upsert", hadKey |-> TRUE]

---------------------------------------------------------------------------
\* C35: whenever the webhook answers 200 for an event that changes an
\* entitlement, the record at keys/<customer>.json and the record at
\* keys/by-key/<key>.json are equal; if either put fails it answers 500.
RecordsAgree(c, custs, bykeys) ==
    c \in DOMAIN custs =>
        (custs[c].key \in DOMAIN bykeys /\ bykeys[custs[c].key] = custs[c])

C35_Steps ==
    \A w \in WReq :
        /\ (whook[w].pc \in {"read", "putCust", "putByKey", "mail"}
                /\ whook'[w] = WRespond(200)) =>
                    RecordsAgree(whook[w].customer, keys', bykey')
        /\ (WPutCustDone(w, "error") \/ WPutByKeyDone(w, "error")) =>
                    whook'[w] = WRespond(500)

C35_RecordsAgreeOn200 == [][C35_Steps]_vars

\* every delivery has been answered 200, the last one handled for the
\* customer an upsert, and the by-key record of the customer's key says the
\* key is inactive while the customer record says it is active
C35_Witness ==
    \E c \in DOMAIN keys :
        /\ \A w \in WReq : whook[w] = WRespond(200)
        /\ keys[c].key \in DOMAIN bykey
        /\ keys[c].active
        /\ ~bykey[keys[c].key].active

---------------------------------------------------------------------------
\* A failed dispatch leads to the put of the marker send_failed and to the
\* answer 500, and sends nothing; the marker put, when it succeeds, stores
\* that marker; a delivery whose head request finds a marker is answered 200
\* and sends nothing; no marker is ever removed.
FailedDispatchSteps ==
    /\ DOMAIN marks \subseteq DOMAIN marks'
    /\ \A d \in DReq :
        /\ LSendDone(d, FALSE) =>
                /\ lhook'[d].pc = "mark"
                /\ lhook'[d].status = 500
                /\ lhook'[d].mark = [type |-> lhook[d].type, error |-> "send_failed"]
                /\ mails' = mails
        /\ (LMarkDone(d, "ok") /\ S3_BUCKET) =>
                /\ marks'[lhook[d].id] = lhook[d].mark
                /\ lhook'[d].status = lhook[d].status
        /\ (lhook[d].pc = "seen" /\ lhook[d].id \in DOMAIN marks /\ LSeenDone(d, "ok", TRUE)) =>
                /\ lhook'[d].pc = "done"
                /\ lhook'[d].status = 200
                /\ mails' = mails
                /\ marks' = marks

\* a delivery answered 500 has left a marker for its event
MarkedWhenFailed ==
    \A d \in DReq :
        (lhook[d].pc = "done" /\ lhook[d].status = 500) => lhook[d].id \in DOMAIN marks

\* C36 as stated: when sending the email fails the event is marked as seen
\* and the handler answers 500, and later redeliveries find the marker.
C36_FailedDispatchFinalAsStated == []MarkedWhenFailed /\ [][FailedDispatchSteps]_vars

\* C36: in the legacy listener a failed mail dispatch is final once its
\* marker is stored: the failure is answered 500 after the put of the marker
\* send_failed was attempted, and every delivery of the event whose head
\* request finds a marker is answered 200 without sending the email.
C36_FailedDispatchFinal == [][FailedDispatchSteps]_vars

\* a redelivery found the marker of the failed dispatch and was answered 200;
\* no email of the event ever went out
C36_Witness ==
    \E d \in DReq :
        /\ lhook[d].pc = "done"
        /\ lhook[d].status = 200
        /\ IsNull(lhook[d].mark)
        /\ lhook[d].id \in DOMAIN marks
        /\ marks[lhook[d].id] = [type |-> "checkout.session.completed", error |-> "send_failed"]
        /\ mails[lhook[d].id] = 0

---------------------------------------------------------------------------
\* C37: per-key isolation of the meter. A meterAndCheck call for an API key
\* reads and writes only the record of that key and of the window its clock
\* fell in: the count it reads is the one stored under that key (0 when the
\* read delivers nothing), its decision follows from that count alone, and a
\* step that changes a record is the end of the put of a call for the API key
\* and window the record is stored under; every other record stays as it is.
OwnRecord(r) ==
    /\ mcall[r].window = WindowOf(mcall[r].window)
    /\ mcall[r].key = <<"meter/", DayOf(mcall[r].window), mcall[r].apiKey, mcall[r].window>>

C37_Positions ==
    \A r \in MReq :
        /\ mcall[r].n > 0 => OwnRecord(r)
        /\ Metered(r) => mcall[r].result = Decision(mcall[r].read + 1)

C37_Steps ==
    /\ DOMAIN meter \subseteq DOMAIN meter'
    /\ \A k \in DOMAIN meter' :
            (k \notin DOMAIN meter \/ meter'[k] # meter[k]) =>
                \E r \in MReq :
                    /\ mcall[r].pc = "put" /\ mcall'[r].pc = "done"
                    /\ mcall[r].key = k
                    /\ k[3] = mcall[r].apiKey
                    /\ k[4] = mcall[r].window
                    /\ meter'[k].apiKey = mcall[r].apiKey
    /\ \A r \in MReq :
            (mcall[r].pc = "get" /\ mcall'[r].pc = "put") =>
                mcall'[r].read =
                    (IF mcall'[r].readOutcome = "ok" /\ mcall[r].key \in DOMAIN meter
                     THEN meter[mcall[r].key].count ELSE 0)

C37_PerKeyIsolation == []C37_Positions /\ [][C37_Steps]_vars

\* in one window a call for one key was denied, with a count above LIMIT
\* stored for that key, and a call for the other key was admitted with
\* remaining = LIMIT - 1
C37_Witness ==
    \E r, q \in MReq :
        /\ Metered(r) /\ Metered(q)
        /\ mcall[r].apiKey # mcall[q].apiKey
        /\ mcall[r].window = mcall[q].window
        /\ ~mcall[r].result.allowed
        /\ mcall[r].key \in DOMAIN meter
        /\ meter[mcall[r].key].count > LIMIT
        /\ mcall[q].result = [allowed |-> TRUE, remaining |-> LIMIT - 1]
        /\ mcall[q].readOutcome = "ok"

---------------------------------------------------------------------------
\* C38: the trialUntil and graceUntil fields of an entitlement record never
\* move backwards. No step makes either field of a stored record earlier or
\* turns it to null, and the record a call puts carries, in each field, a
\* value not earlier than the one the call supplied.
NotEarlier(a, b) == IsNull(b) \/ (~IsNull(a) /\ getTime(a) >= getTime(b))

FieldsKept(before, after) ==
    \A k \in DOMAIN before :
        /\ k \in DOMAIN after
        /\ NotEarlier(after[k].trialUntil, before[k].trialUntil)
        /\ NotEarlier(after[k].graceUntil, before[k].graceUntil)

C38_Steps ==
    /\ FieldsKept(keys, keys')
    /\ FieldsKept(bykey, bykey')
    /\ \A w \in WReq :
            (whook[w].pc = "putCust" /\ whook'[w].pc = "putByKey") =>
                LET c == whook[w].customer IN
                /\ NotEarlier(keys'[c].trialUntil, whook[w].trialUntil)
                /\ NotEarlier(keys'[c].graceUntil, whook[w].graceUntil)

C38_FieldsNeverMoveBack == [][C38_Steps]_vars

\* the customer record carried a grace date, and now carries none
C38_Witness ==
    \E c \in DOMAIN keys, k \in DOMAIN bykey :
        /\ bykey[k].customerId = c
        /\ k # keys[c].key
        /\ ~IsNull(bykey[k].graceUntil)
        /\ IsNull(keys[c].graceUntil)

\* a later trial end replaced an earlier one, a deactivation set a grace
\* date, and a later event that supplied neither left both in place
C38_KeptOverWorkingReads ==
    \E c \in DOMAIN keys :
        /\ ~IsNull(keys[c].trialUntil) /\ getTime(keys[c].trialUntil) = 3000
        /\ ~IsNull(keys[c].graceUntil)
        /\ keys[c].active
        /\ handled[c] = [op |-> "upsert", hadKey |-> TRUE]

====
